---- MODULE Spec2Model ----
(***************************************************************************)
(* Model of the rclrust interface-definition front end: the service and    *)
(* action section splitters, newline normalisation, the member and         *)
(* constant line parsers with their default/value validation, the          *)
(* artefacts derived from an Action, and the package loaders with the      *)
(* duplicate check of the build.                                           *)
(*                                                                         *)
(* Text is modelled character by character: a text is a sequence of        *)
(* one-character strings, so that "---\n" inside a comment, "\r\n" line    *)
(* endings and integer literals wider than 32 bits behave as in the code.  *)
(***************************************************************************)
EXTENDS Integers, Sequences, FiniteSets, TLC

VARIABLES
    text,    \* dialect run: the content of the interface file
    dop,     \* dialect run: "idle", "service" or "action"
    norm,    \* dialect run: the text handed to split_once
    blocks,  \* dialect run: the sections produced by the split(s)
    dres,    \* dialect run: the Result<Service> / Result<Action>
    lin,     \* line run: the pieces the line was written from
    line,    \* line run: the declaration line
    lop,     \* line run: "idle", "member" or "constant"
    lres,    \* line run: the Result<Member> / Result<Constant>
    action,  \* derive run: the Action (&self)
    aop,     \* derive run: "idle" or the method that was called
    ares,    \* derive run: the Service / Message the method returned
    fs,      \* package run: the resource directory of every ament prefix,
             \*              or the package directory of a workspace
    environ, \* package run: $AMENT_PREFIX_PATH
    config,  \* package run: the CompileConfig
    pop,     \* package run: "idle" or the last call made
    parg,    \* package run: the argument of the last builder call
    pres,    \* package run: the Result of the call
    arg,     \* call run: the text the function is called on
    fop,     \* call run: "idle" or the function that was called
    fn,      \* call run: the number of calls made
    fres,    \* call run: what the last call returned
    tx,       \* invoker run: ClientInvoker.tx, the sender of the channel
    rx,       \* invoker run: whether the receiver of the channel is alive
    handle,   \* invoker run: the responses ready in the client handle
    channel,  \* invoker run: the messages in flight on the channel
    received, \* invoker run: the messages the receiver has taken off
    taken,    \* invoker run: the responses invoke took, with what became of each
    iop,      \* invoker run: "idle" or the last step made
    ires,     \* invoker run: what the last invoke did and returned
    tree,    \* tree run: the AmentTree
    tlog,    \* tree run: the set calls made so far, oldest first
    top,     \* tree run: "idle" or the last call made
    targ,    \* tree run: the arguments of the last call
    tres     \* tree run: what the last get returned

dvars == <<text, dop, norm, blocks, dres>>
lvars == <<lin, line, lop, lres>>
avars == <<action, aop, ares>>
pvars == <<fs, environ, config, pop, parg, pres>>
cvars == <<arg, fop, fn, fres>>
ivars == <<tx, rx, handle, channel, received, taken, iop, ires>>
tvars == <<tree, tlog, top, targ, tres>>
yvars == <<ivars, tvars>>
xvars == <<cvars, yvars>>
vars == <<text, dop, norm, blocks, dres, lin, line, lop, lres, action, aop, ares,
          fs, environ, config, pop, parg, pres, arg, fop, fn, fres,
          tx, rx, handle, channel, received, taken, iop, ires,
          tree, tlog, top, targ, tres>>

-----------------------------------------------------------------------------
(* Bounds of the model. *)

\* number of lines an interface file of the model has at most
MaxLines == 4
\* number of elements an array literal of the model has at most
MaxElems == 4
\* largest declared array size / sequence capacity of the model
MaxSize == 3
MaxIdl == 2
MaxPaths == 2
MaxIdent == 4
MaxCalls == 2

-----------------------------------------------------------------------------
(* Characters and string helpers (Rust str methods used by the parsers). *)

NL == "\n"
CR == "\r"
SP == " "
TAB == "\t"

Digits == <<"0", "1", "2", "3", "4", "5", "6", "7", "8", "9">>
DigitSet == {Digits[i] : i \in 1..10}
Lower == {"a", "b", "c", "d", "e", "f", "g", "h", "i", "j", "k", "l", "m",
          "n", "o", "p", "q", "r", "s", "t", "u", "v", "w", "x", "y", "z"}
Upper == {"A", "B", "C", "D", "E", "F", "G", "H", "I", "J", "K", "L", "M",
          "N", "O", "P", "Q", "R", "S", "T", "U", "V", "W", "X", "Y", "Z"}
Space == {SP, TAB}

Drop(s, n) == SubSeq(s, n + 1, Len(s))
Take(s, n) == SubSeq(s, 1, n)

starts_with(s, p) == Len(s) >= Len(p) /\ Take(s, Len(p)) = p
ends_with(s, p) == Len(s) >= Len(p) /\ Drop(s, Len(s) - Len(p)) = p

\* least and greatest element of a non-empty set of integers
Least(S) == CHOOSE i \in S : \A j \in S : i <= j
Greatest(S) == CHOOSE i \in S : \A j \in S : i >= j
LeastOr0(S) == IF S = {} THEN 0 ELSE Least(S)

\* index of the first occurrence of p in s, 0 when there is none
find(s, p) ==
    LeastOr0({i \in 1..(Len(s) - Len(p) + 1) : SubSeq(s, i, i + Len(p) - 1) = p})

\* the two sides of the delimiter of length n found at index i (0: not found)
split_at(s, n, i) ==
    IF i = 0
    THEN [found |-> FALSE, before |-> <<>>, after |-> <<>>]
    ELSE [found |-> TRUE, before |-> Take(s, i - 1), after |-> Drop(s, i + n - 1)]

\* str::split_once: splits at the first occurrence of the delimiter
split_once(s, p) == split_at(s, Len(p), find(s, p))

\* str::replace("\r\n", "\n") and newline_converter::dos2unix: every CR LF
\* pair becomes LF; a CR that is not followed by LF is kept
RECURSIVE replace_crlf(_)
replace_crlf(s) ==
    IF s = <<>> THEN <<>>
    ELSE IF starts_with(s, <<CR, NL>>) THEN <<NL>> \o replace_crlf(Drop(s, 2))
    ELSE <<Head(s)>> \o replace_crlf(Tail(s))

dos2unix(s) == replace_crlf(s)

\* the second half of fix_newlines: a final line feed is pushed when missing
push_newline(t) == IF ends_with(t, <<NL>>) THEN t ELSE t \o <<NL>>

fix_newlines(s) == push_newline(dos2unix(s))

\* the length of s up to the first index of the set stop
UpTo(s, stop) == IF stop = {} THEN Len(s) ELSE Least(stop) - 1

\* length of the longest prefix of s made of characters of set cs
span(s, cs) == UpTo(s, {i \in 1..Len(s) : s[i] \notin cs})

\* length of the longest prefix of s made of characters outside set cs
span_not(s, cs) == UpTo(s, {i \in 1..Len(s) : s[i] \in cs})

\* s up to the last index of the set keep
UpToLast(s, keep) == IF keep = {} THEN <<>> ELSE Take(s, Greatest(keep))

trim_start(s, cs) == Drop(s, span(s, cs))
trim_end(s, cs) == UpToLast(s, {i \in 1..Len(s) : s[i] \notin cs})
trim(s, cs) == trim_end(trim_start(s, cs), cs)

-----------------------------------------------------------------------------
(* The type model (types/member_type.rs, types/constant_type.rs) and the   *)
(* type grammar.  A nestable type is a record [k, t, name, bound]; a       *)
(* member or constant type is a record [m, vt, size].                      *)

BasicType(tag) == [k |-> "BasicType", t |-> tag, name |-> <<>>, bound |-> 0]
GenericString(tag, bound) == [k |-> "GenericString", t |-> tag, name |-> <<>>, bound |-> bound]
NamedType(name) == [k |-> "NamedType", t |-> "", name |-> name, bound |-> 0]
NamespacedType(name) == [k |-> "NamespacedType", t |-> "", name |-> name, bound |-> 0]

NestableTypeOf(t) == [m |-> "NestableType", vt |-> t, size |-> 0]
Array(t, n) == [m |-> "Array", vt |-> t, size |-> n]
Sequence(t) == [m |-> "Sequence", vt |-> t, size |-> 0]
BoundedSequence(t, n) == [m |-> "BoundedSequence", vt |-> t, size |-> n]

NoType == NestableTypeOf(BasicType(""))

IntTags == {"I8", "I16", "I32", "I64", "U8", "U16", "U32", "U64"}

DigitVal(c) == CHOOSE i \in 0..9 : Digits[i + 1] = c

\* value of a run of decimal digits (array sizes and capacities)
RECURSIVE parse_usize(_)
parse_usize(cs) ==
    IF cs = <<>> THEN 0
    ELSE 10 * parse_usize(Take(cs, Len(cs) - 1)) + DigitVal(cs[Len(cs)])

IsDigits(cs) == cs # <<>> /\ \A i \in 1..Len(cs) : cs[i] \in DigitSet

KwBool == <<"b", "o", "o", "l">>
KwInt == <<"i", "n", "t">>
KwUint == <<"u", "i", "n", "t">>
KwString == <<"s", "t", "r", "i", "n", "g">>
KwWString == <<"w", "s", "t", "r", "i", "n", "g">>
BoundMark == <<"<", "=">>

IntKeyword(signed, w) ==
    CASE w = <<"8">> -> IF signed THEN "I8" ELSE "U8"
      [] w = <<"1", "6">> -> IF signed THEN "I16" ELSE "U16"
      [] w = <<"3", "2">> -> IF signed THEN "I32" ELSE "U32"
      [] w = <<"6", "4">> -> IF signed THEN "I64" ELSE "U64"
      [] OTHER -> ""

IsMessageName(cs) ==
    /\ cs # <<>>
    /\ cs[1] \in Upper
    /\ \A i \in 1..Len(cs) : cs[i] \in Upper \cup Lower \cup DigitSet

IsPackageName(cs) ==
    /\ cs # <<>>
    /\ cs[1] \in Lower
    /\ \A i \in 1..Len(cs) : cs[i] \in Lower \cup DigitSet \cup {"_"}

Typed(t) == [ok |-> TRUE, ty |-> t]
Untyped == [ok |-> FALSE, ty |-> BasicType("")]

int_type(tag) == IF tag = "" THEN Untyped ELSE Typed(BasicType(tag))

bounded_string_type(tag, digits) ==
    IF IsDigits(digits) THEN Typed(GenericString(tag, parse_usize(digits))) ELSE Untyped

namespaced_type(tok, slash) ==
    IF IsPackageName(Take(tok, slash - 1)) /\ IsMessageName(Drop(tok, slash))
    THEN Typed(NamespacedType(tok)) ELSE Untyped

\* the type named by a token without array suffix
parse_nestable_type(tok) ==
    CASE tok = KwBool -> Typed(BasicType("Bool"))
      [] starts_with(tok, KwInt) -> int_type(IntKeyword(TRUE, Drop(tok, 3)))
      [] starts_with(tok, KwUint) -> int_type(IntKeyword(FALSE, Drop(tok, 4)))
      [] tok = KwString -> Typed(GenericString("String", 0))
      [] tok = KwWString -> Typed(GenericString("WString", 0))
      [] starts_with(tok, KwString \o BoundMark) ->
           bounded_string_type("BoundedString", Drop(tok, 8))
      [] starts_with(tok, KwWString \o BoundMark) ->
           bounded_string_type("BoundedWString", Drop(tok, 9))
      [] find(tok, <<"/">>) > 0 -> namespaced_type(tok, find(tok, <<"/">>))
      [] IsMessageName(tok) -> Typed(NamedType(tok))
      [] OTHER -> Untyped

TypeAt(t, rest) == [ok |-> TRUE, ty |-> t, rest |-> rest]
NoTypeAt(s) == [ok |-> FALSE, ty |-> NoType, rest |-> s]

\* the member type of the base type b and the array suffix
suffixed_type(s, b, suffix, inner, rest) ==
    IF ~b.ok THEN NoTypeAt(s)
    ELSE IF suffix = <<>> THEN TypeAt(NestableTypeOf(b.ty), rest)
    ELSE IF ~ends_with(suffix, <<"]">>) THEN NoTypeAt(s)
    ELSE IF inner = <<>> THEN TypeAt(Sequence(b.ty), rest)
    ELSE IF starts_with(inner, BoundMark) /\ IsDigits(Drop(inner, 2))
         THEN TypeAt(BoundedSequence(b.ty, parse_usize(Drop(inner, 2))), rest)
    ELSE IF IsDigits(inner) THEN TypeAt(Array(b.ty, parse_usize(inner)), rest)
    ELSE NoTypeAt(s)

\* the token tok cut at its first "[" (open = 0: no suffix)
type_of_token(s, tok, open) ==
    IF open = 0
    THEN suffixed_type(s, parse_nestable_type(tok), <<>>, <<>>, Drop(s, Len(tok)))
    ELSE suffixed_type(s, parse_nestable_type(Take(tok, open - 1)), Drop(tok, open - 1),
                       SubSeq(tok, open + 1, Len(tok) - 1), Drop(s, Len(tok)))

type_token(s, tok) == type_of_token(s, tok, find(tok, <<"[">>))

\* the type token at the start of a line: a nestable type followed by at
\* most one of the suffixes [N], [] and [<=N]
parse_member_type(s) == type_token(s, Take(s, span_not(s, Space)))

IsPrimitive(t) ==
    \/ t.k = "BasicType"
    \/ t.k = "GenericString" /\ t.t \in {"String", "WString"}

constant_type_of(s, r) ==
    IF r.ok /\ r.ty.m \in {"NestableType", "Array"} /\ IsPrimitive(r.ty.vt)
    THEN r ELSE NoTypeAt(s)

\* the type token of a constant: a primitive type or a fixed-size array of one
parse_constant_type(s) == constant_type_of(s, parse_member_type(s))

NameAt(s, n) == [ok |-> TRUE, name |-> Take(s, n), rest |-> Drop(s, n)]
NoNameAt(s) == [ok |-> FALSE, name |-> <<>>, rest |-> s]

\* ident::member_name: a lower-case identifier at the start of s
member_name(s) ==
    IF s # <<>> /\ s[1] \in Lower
    THEN NameAt(s, span(s, Lower \cup DigitSet \cup {"_"})) ELSE NoNameAt(s)

\* ident::constant_name: an upper-case identifier at the start of s
constant_name(s) ==
    IF s # <<>> /\ s[1] \in Upper
    THEN NameAt(s, span(s, Upper \cup DigitSet \cup {"_"})) ELSE NoNameAt(s)

-----------------------------------------------------------------------------
(* Literal parsers (parser/literal.rs).  Every parser takes the text at    *)
(* its start and returns [ok, rest, out]: the text left over and the       *)
(* canonical text of the value.  Integer values are held as sequences of   *)
(* decimal digits, most significant first, so that 64-bit bounds are exact.*)

\* a digit sequence without its leading zeros (<<>> is zero)
RECURSIVE StripZeros(_)
StripZeros(ds) == IF ds # <<>> /\ Head(ds) = 0 THEN StripZeros(Tail(ds)) ELSE ds

RECURSIVE LexLess(_, _)
LexLess(a, b) ==
    IF a = <<>> THEN FALSE
    ELSE IF Head(a) # Head(b) THEN Head(a) < Head(b)
    ELSE LexLess(Tail(a), Tail(b))

\* a < b for digit sequences without leading zeros
DecLess(a, b) == Len(a) < Len(b) \/ (Len(a) = Len(b) /\ LexLess(a, b))
DecLeq(a, b) == a = b \/ DecLess(a, b)

\* the digits of the greatest value of an integer type (T::MAX)
MaxMagnitude(tag) ==
    CASE tag = "I8" -> <<1, 2, 7>>
      [] tag = "I16" -> <<3, 2, 7, 6, 7>>
      [] tag = "I32" -> <<2, 1, 4, 7, 4, 8, 3, 6, 4, 7>>
      [] tag = "I64" -> <<9, 2, 2, 3, 3, 7, 2, 0, 3, 6, 8, 5, 4, 7, 7, 5, 8, 0, 7>>
      [] tag = "U8" -> <<2, 5, 5>>
      [] tag = "U16" -> <<6, 5, 5, 3, 5>>
      [] tag = "U32" -> <<4, 2, 9, 4, 9, 6, 7, 2, 9, 5>>
      [] tag = "U64" -> <<1, 8, 4, 4, 6, 7, 4, 4, 0, 7, 3, 7, 0, 9, 5, 5, 1, 6, 1, 5>>

\* the digits of the magnitude of the least value of an integer type (T::MIN)
MinMagnitude(tag) ==
    CASE tag = "I8" -> <<1, 2, 8>>
      [] tag = "I16" -> <<3, 2, 7, 6, 8>>
      [] tag = "I32" -> <<2, 1, 4, 7, 4, 8, 3, 6, 4, 8>>
      [] tag = "I64" -> <<9, 2, 2, 3, 3, 7, 2, 0, 3, 6, 8, 5, 4, 7, 7, 5, 8, 0, 8>>
      [] OTHER -> <<>>

\* whether the value sign*mag fits the integer type: what T::try_from does
FitsInt(tag, neg, mag) ==
    IF neg THEN DecLeq(mag, MinMagnitude(tag)) ELSE DecLeq(mag, MaxMagnitude(tag))

NoLit(s) == [ok |-> FALSE, rest |-> s, out |-> <<>>]
Lit(out, rest) == [ok |-> TRUE, rest |-> rest, out |-> out]

\* the canonical text of the value sign*mag
IntText(neg, mag) ==
    (IF neg THEN <<"-">> ELSE <<>>)
        \o (IF mag = <<>> THEN <<"0">> ELSE [i \in 1..Len(mag) |-> Digits[mag[i] + 1]])

\* the value of the sign and the digit run that the literal starts with
int_value(tag, s, minus, mag, rest) ==
    IF FitsInt(tag, minus /\ mag # <<>>, mag)
    THEN Lit(IntText(minus /\ mag # <<>>, mag), rest) ELSE NoLit(s)

\* the digit run of length n at the start of body
int_digits(tag, s, minus, body, n) ==
    IF n = 0 THEN NoLit(s)
    ELSE int_value(tag, s, minus, StripZeros([i \in 1..n |-> DigitVal(body[i])]),
                   Drop(body, n))

int_body(tag, s, minus, body) == int_digits(tag, s, minus, body, span(body, DigitSet))

\* an optionally signed decimal integer that fits the type
integer_literal(tag, s) ==
    IF s # <<>> /\ Head(s) \in {"-", "+"}
    THEN int_body(tag, s, Head(s) = "-", Tail(s))
    ELSE int_body(tag, s, FALSE, s)

LitTrue == <<"t", "r", "u", "e">>
LitFalse == <<"f", "a", "l", "s", "e">>

bool_literal(s) ==
    IF starts_with(s, LitTrue) THEN Lit(LitTrue, Drop(s, 4))
    ELSE IF starts_with(s, LitFalse) THEN Lit(LitFalse, Drop(s, 5))
    ELSE NoLit(s)

get_basic_type_literal_parser(t, s) ==
    IF t.t \in IntTags THEN integer_literal(t.t, s)
    ELSE IF t.t = "Bool" THEN bool_literal(s)
    ELSE NoLit(s)

Quotes == {"'", "\""}

\* the index of the closing quote q of the text s that follows the opening
\* quote, 0 when there is none: a quote after an odd run of backslashes is
\* escaped
IsEscaped(s, i) ==
    \E k \in 1..(i - 1) :
        /\ k % 2 = 1
        /\ \A j \in (i - k)..(i - 1) : s[j] = "\\"
        /\ (i - k = 1 \/ s[i - k - 1] # "\\")

closing_quote(s, q) == LeastOr0({i \in 1..Len(s) : s[i] = q /\ ~IsEscaped(s, i)})

\* the text without the backslash of each escape
RECURSIVE unescape(_)
unescape(s) ==
    IF s = <<>> THEN <<>>
    ELSE IF Head(s) = "\\" /\ Len(s) >= 2 /\ s[2] \in Quotes \cup {"\\"}
         THEN <<s[2]>> \o unescape(Drop(s, 2))
    ELSE <<Head(s)>> \o unescape(Tail(s))

bounded_string(t, s, body, rest) ==
    IF t.t \in {"BoundedString", "BoundedWString"} /\ Len(body) > t.bound
    THEN NoLit(s) ELSE Lit(body, rest)

quoted_string(t, s, close) ==
    IF close = 0 THEN NoLit(s)
    ELSE bounded_string(t, s, unescape(SubSeq(s, 2, close)), Drop(s, close + 1))

\* a quoted string; a bounded string type also limits the decoded length
get_string_literal_parser(t, s) ==
    IF s = <<>> \/ Head(s) \notin Quotes THEN NoLit(s)
    ELSE quoted_string(t, s, closing_quote(Tail(s), Head(s)))

\* one element of an array literal
element_literal(t, s) ==
    IF t.k = "BasicType" THEN get_basic_type_literal_parser(t, s)
    ELSE get_string_literal_parser(GenericString("String", 0), s)

Items(ok, out, rest) == [ok |-> ok, rest |-> rest, out |-> out]
PushItem(e, m) == Items(m.ok, <<e>> \o m.out, m.rest)

\* the elements of an array literal whose text s follows "[" or ",": the
\* element texts in order and the text after the last one
RECURSIVE elements(_, _)

after_element(t, out, rest) ==
    IF rest # <<>> /\ Head(rest) = ","
    THEN PushItem(out, elements(t, Tail(rest)))
    ELSE Items(TRUE, <<out>>, rest)

next_element(t, s, e) ==
    IF ~e.ok THEN Items(FALSE, <<>>, s)
    ELSE after_element(t, e.out, trim_start(e.rest, Space))

elements(t, s) == next_element(t, s, element_literal(t, trim_start(s, Space)))

close_list(s, items) ==
    IF items.ok /\ items.rest # <<>> /\ Head(items.rest) = "]"
    THEN Lit(items.out, Tail(items.rest)) ELSE NoLit(s)

\* the array literal whose text inner follows "["
list_body(t, s, inner) ==
    IF inner # <<>> /\ Head(inner) = "]" THEN Lit(<<>>, Tail(inner))
    ELSE close_list(s, elements(t, inner))

\* an array literal "[" v1 "," v2 ... "]" of elements of type t: the
\* ordered element texts; the caller enforces the arity
literal_sequence(t, s) ==
    IF s = <<>> \/ Head(s) # "[" THEN NoLit(s)
    ELSE list_body(t, s, trim_start(Tail(s), Space))

basic_type_sequence(t, s) == literal_sequence(t, s)

string_literal_sequence(s) == literal_sequence(GenericString("String", 0), s)

-----------------------------------------------------------------------------
(* Member and constant lines (parser/member.rs, parser/constant.rs).       *)

\* Result<Vec<String>>
ValOk(v) == [ok |-> TRUE, err |-> "", input |-> <<>>, v |-> v]
ValErr(e, input) == [ok |-> FALSE, err |-> e, input |-> input, v |-> <<>>]

\* the failure of ensure!(..): an anyhow error that names the condition
EnsureErr == ValErr("ConditionFailed", <<>>)

\* what follows a literal parser: map_err, ensure!(rest.is_empty()), the value
scalar_value(r, e, input) ==
    IF ~r.ok THEN ValErr(e, input)
    ELSE IF r.rest # <<>> THEN EnsureErr
    ELSE ValOk(<<r.out>>)

\* the same for an array literal, whose value is the element list
list_value(r, e, input) ==
    IF ~r.ok THEN ValErr(e, input)
    ELSE IF r.rest # <<>> THEN EnsureErr
    ELSE ValOk(r.out)

\* nestable_type_default without the literal parser: the text is taken as it is
nestable_type_default_unparsed(nestable_type, default) ==
    IF nestable_type.k \in {"BasicType", "GenericString"} THEN ValOk(<<default>>)
    ELSE ValErr("InvalidDefaultError", nestable_type.name)

nestable_type_default(nestable_type, default) ==
    CASE nestable_type.k = "BasicType" ->
           scalar_value(get_basic_type_literal_parser(nestable_type, default),
                        "ParseDefaultValueError", default)
      [] nestable_type.k = "GenericString" ->
           scalar_value(get_string_literal_parser(nestable_type, default),
                        "ParseDefaultValueError", default)
      [] OTHER -> ValErr("InvalidDefaultError", nestable_type.name)

\* array_type_default whose last arm is the string arm: no type is refused
array_type_default_unrefused(value_type, default) ==
    IF value_type.k = "BasicType"
    THEN list_value(basic_type_sequence(value_type, default),
                    "ParseDefaultValueError", default)
    ELSE list_value(string_literal_sequence(default),
                    "ParseDefaultValueError", default)

array_type_default(value_type, default) ==
    CASE value_type.k = "BasicType" ->
           list_value(basic_type_sequence(value_type, default),
                      "ParseDefaultValueError", default)
      [] value_type.k = "GenericString" ->
           list_value(string_literal_sequence(default),
                      "ParseDefaultValueError", default)
      [] OTHER -> ValErr("InvalidDefaultError", value_type.name)

\* ensure!(default.len() == t.size)
ensure_len_eq(d, size) == IF d.ok /\ Len(d.v) # size THEN EnsureErr ELSE d

\* the bound check off by one: ensure!(default.len() < t.max_size)
ensure_len_lt(d, max_size) == IF d.ok /\ Len(d.v) >= max_size THEN EnsureErr ELSE d

\* ensure!(default.len() <= t.max_size)
ensure_len_le(d, max_size) == IF d.ok /\ Len(d.v) > max_size THEN EnsureErr ELSE d

validate_default(type, default) ==
    CASE type.m = "NestableType" -> nestable_type_default(type.vt, default)
      [] type.m = "Array" ->
           ensure_len_eq(array_type_default(type.vt, default), type.size)
      [] type.m = "Sequence" -> array_type_default(type.vt, default)
      [] OTHER ->
           ensure_len_le(array_type_default(type.vt, default), type.size)

\* Option<Vec<String>>
None == [some |-> FALSE, v |-> <<>>]
Some(v) == [some |-> TRUE, v |-> v]

\* Result<Member>
MemberOk(name, type, default) ==
    [ok |-> TRUE, err |-> "", input |-> <<>>,
     name |-> name, type |-> type, default |-> default]
MemberErr(e, input) ==
    [ok |-> FALSE, err |-> e, input |-> input,
     name |-> <<>>, type |-> NoType, default |-> None]

\* opt(preceded(space1, recognize(separated_list1(space1, is_not(" \t"))))):
\* the words after at least one blank, without the blanks around them
default_region(s) ==
    IF span(s, Space) >= 1 /\ trim_start(s, Space) # <<>>
    THEN [some |-> TRUE, v |-> trim(s, Space), rest |-> <<>>]
    ELSE [some |-> FALSE, v |-> <<>>, rest |-> s]

\* member_def that validates the default and then leaves it out of the Member
member_without_default(name, type, v) ==
    IF ~v.ok THEN MemberErr(v.err, v.input) ELSE MemberOk(name, type, None)

\* the Member built from the parsed pieces: Some(validate_default(..)?)
member_with_default(name, type, v) ==
    IF ~v.ok THEN MemberErr(v.err, v.input) ELSE MemberOk(name, type, Some(v.v))

\* the end of the grammar (space0, eof) and the Member
member_of(ln, ty, nm, df) ==
    IF trim_start(df.rest, Space) # <<>> THEN MemberErr("ParseMemberError", ln)
    ELSE IF ~df.some THEN MemberOk(nm.name, ty.ty, None)
    ELSE member_with_default(nm.name, ty.ty, validate_default(ty.ty, df.v))

\* after the name: the optional default region
member_after_name(ln, ty, nm) ==
    IF ~nm.ok THEN MemberErr("ParseMemberError", ln)
    ELSE member_of(ln, ty, nm, default_region(nm.rest))

\* after the type: space1 and the member name
member_after_type(ln, ty) ==
    IF ~ty.ok \/ span(ty.rest, Space) = 0 THEN MemberErr("ParseMemberError", ln)
    ELSE member_after_name(ln, ty, member_name(trim_start(ty.rest, Space)))

member_def(ln) == member_after_type(ln, parse_member_type(ln))

validate_value(type, value) ==
    CASE type.m = "NestableType" /\ type.vt.k = "BasicType" ->
           scalar_value(get_basic_type_literal_parser(type.vt, value),
                        "ParseConstantValueError", value)
      [] type.m = "NestableType" ->
           scalar_value(get_string_literal_parser(type.vt, value),
                        "ParseDefaultValueError", value)
      [] type.vt.k = "BasicType" ->
           ensure_len_eq(list_value(basic_type_sequence(type.vt, value),
                                    "ParseDefaultValueError", value), type.size)
      [] OTHER ->
           list_value(string_literal_sequence(value), "ParseDefaultValueError", value)

\* Result<Constant>
ConstantOk(name, type, value) ==
    [ok |-> TRUE, err |-> "", input |-> <<>>,
     name |-> name, type |-> type, value |-> value]
ConstantErr(e, input) ==
    [ok |-> FALSE, err |-> e, input |-> input,
     name |-> <<>>, type |-> NoType, value |-> <<>>]

\* the Constant built from the parsed pieces: validate_value(..)?
constant_with_value(name, type, v) ==
    IF ~v.ok THEN ConstantErr(v.err, v.input) ELSE ConstantOk(name, type, v.v)

\* constant_def with an optional value: nothing after '=' gives an empty value
constant_of_optional(ln, ty, nm, region) ==
    IF region = <<>> THEN ConstantOk(nm.name, ty.ty, <<>>)
    ELSE constant_with_value(nm.name, ty.ty, validate_value(ty.ty, trim_end(region, Space)))

\* after '=' and space0: the value words, space0, eof
constant_of(ln, ty, nm, region) ==
    IF region = <<>> THEN ConstantErr("ParseConstantError", ln)
    ELSE constant_with_value(nm.name, ty.ty, validate_value(ty.ty, trim_end(region, Space)))

\* after the name and space0: char('=') and space0
constant_after_name(ln, ty, nm, eq) ==
    IF ~nm.ok \/ eq = <<>> \/ Head(eq) # "=" THEN ConstantErr("ParseConstantError", ln)
    ELSE constant_of(ln, ty, nm, trim_start(Tail(eq), Space))

constant_name_at(ln, ty, nm) == constant_after_name(ln, ty, nm, trim_start(nm.rest, Space))

\* after the type: space1 and the constant name
constant_after_type(ln, ty) ==
    IF ~ty.ok \/ span(ty.rest, Space) = 0 THEN ConstantErr("ParseConstantError", ln)
    ELSE constant_name_at(ln, ty, constant_name(trim_start(ty.rest, Space)))

constant_def(ln) == constant_after_type(ln, parse_constant_type(ln))

-----------------------------------------------------------------------------
(* Dialect assemblers (parser/service.rs, parser/action.rs) and the        *)
(* message body parser they share.                                         *)

Separator == <<"-", "-", "-", NL>>

SERVICE_REQUEST_SUFFIX == <<"_", "R", "e", "q", "u", "e", "s", "t">>
SERVICE_RESPONSE_SUFFIX == <<"_", "R", "e", "s", "p", "o", "n", "s", "e">>
ACTION_GOAL_SUFFIX == <<"_", "G", "o", "a", "l">>
ACTION_RESULT_SUFFIX == <<"_", "R", "e", "s", "u", "l", "t">>
ACTION_FEEDBACK_SUFFIX == <<"_", "F", "e", "e", "d", "b", "a", "c", "k">>

\* a line without the carriage return that ends it
chomp(l) == IF ends_with(l, <<CR>>) THEN Take(l, Len(l) - 1) ELSE l

\* str::lines: the pieces between line feeds, each without a final carriage
\* return; a final line feed opens no further line
RECURSIVE lines(_)

lines_at(s, i) ==
    IF i = 0 THEN <<chomp(s)>> ELSE <<chomp(Take(s, i - 1))>> \o lines(Drop(s, i))

lines(s) == IF s = <<>> THEN <<>> ELSE lines_at(s, find(s, <<NL>>))

comment_cut(ln, i) == IF i = 0 THEN ln ELSE Take(ln, i - 1)

\* a line without its comment and the blanks around what is left
strip_line(ln) == trim(comment_cut(ln, find(ln, <<"#">>)), Space \cup {CR})

Message(pkg, name, members, constants) ==
    [package |-> pkg, name |-> name, members |-> members, constants |-> constants]

NoMessage == Message(<<>>, <<>>, <<>>, <<>>)

\* Result<Message>
MessageOk(m) == [ok |-> TRUE, err |-> "", input |-> <<>>, msg |-> m]
MessageErr(e, input) == [ok |-> FALSE, err |-> e, input |-> input, msg |-> NoMessage]

\* the Member / Constant value inside a successful result
MemberOf(r) == [name |-> r.name, type |-> r.type, default |-> r.default]
ConstantOf(r) == [name |-> r.name, type |-> r.type, value |-> r.value]

\* the declarations of the lines ls appended to message m, in source order;
\* the first failing line fails the message
RECURSIVE parse_lines(_, _)

with_member(m, d, ls) ==
    IF ~d.ok THEN MessageErr(d.err, d.input)
    ELSE parse_lines(Message(m.package, m.name, Append(m.members, MemberOf(d)),
                             m.constants), ls)

with_constant(m, c, ls) ==
    IF ~c.ok THEN MessageErr(c.err, c.input)
    ELSE parse_lines(Message(m.package, m.name, m.members,
                             Append(m.constants, ConstantOf(c))), ls)

message_line(m, ln, ls) ==
    IF ln = <<>> THEN parse_lines(m, ls)
    ELSE IF find(ln, <<"=">>) > 0 THEN with_constant(m, constant_def(ln), ls)
    ELSE with_member(m, member_def(ln), ls)

parse_lines(m, ls) ==
    IF ls = <<>> THEN MessageOk(m) ELSE message_line(m, strip_line(Head(ls)), Tail(ls))

parse_message_string(pkg_name, msg_name, message_string) ==
    parse_lines(Message(pkg_name, msg_name, <<>>, <<>>), lines(message_string))

\* Result<Service>
ServiceOk(pkg, name, request, response) ==
    [ok |-> TRUE, err |-> "", input |-> <<>>, package |-> pkg, name |-> name,
     request |-> request, response |-> response]
ServiceErr(e, input) ==
    [ok |-> FALSE, err |-> e, input |-> input, package |-> <<>>, name |-> <<>>,
     request |-> NoMessage, response |-> NoMessage]

\* the Service with the two blocks in each other's place
service_of_swapped(pkg_name, srv_name, request, response) ==
    IF ~request.ok THEN ServiceErr(request.err, request.input)
    ELSE IF ~response.ok THEN ServiceErr(response.err, response.input)
    ELSE ServiceOk(pkg_name, srv_name, response.msg, request.msg)

\* Ok(Service { .. }): the first block that fails is the result
service_of(pkg_name, srv_name, request, response) ==
    IF ~request.ok THEN ServiceErr(request.err, request.input)
    ELSE IF ~response.ok THEN ServiceErr(response.err, response.input)
    ELSE ServiceOk(pkg_name, srv_name, request.msg, response.msg)

service_from(pkg_name, srv_name, sp) ==
    IF ~sp.found THEN ServiceErr("InvalidServiceSpecification", <<>>)
    ELSE service_of(pkg_name, srv_name,
            parse_message_string(pkg_name, srv_name \o SERVICE_REQUEST_SUFFIX, sp.before),
            parse_message_string(pkg_name, srv_name \o SERVICE_RESPONSE_SUFFIX, sp.after))

parse_service_string(pkg_name, srv_name, service_string) ==
    service_from(pkg_name, srv_name, split_once(service_string, Separator))

\* the text parse_service_file hands to parse_service_string
service_file_text(content) == replace_crlf(content)

\* Result<Action>
ActionOk(pkg, name, goal, result, feedback) ==
    [ok |-> TRUE, err |-> "", input |-> <<>>, package |-> pkg, name |-> name,
     goal |-> goal, result |-> result, feedback |-> feedback]
ActionErr(e, input) ==
    [ok |-> FALSE, err |-> e, input |-> input, package |-> <<>>, name |-> <<>>,
     goal |-> NoMessage, result |-> NoMessage, feedback |-> NoMessage]

\* a best-effort Action: a feedback block that fails is left empty
action_of_lenient(pkg_name, action_name, goal, result, feedback) ==
    IF ~goal.ok THEN ActionErr(goal.err, goal.input)
    ELSE IF ~result.ok THEN ActionErr(result.err, result.input)
    ELSE ActionOk(pkg_name, action_name, goal.msg, result.msg, feedback.msg)

\* the Action with the second and the third block in each other's place
action_of_swapped(pkg_name, action_name, goal, result, feedback) ==
    IF ~goal.ok THEN ActionErr(goal.err, goal.input)
    ELSE IF ~result.ok THEN ActionErr(result.err, result.input)
    ELSE IF ~feedback.ok THEN ActionErr(feedback.err, feedback.input)
    ELSE ActionOk(pkg_name, action_name, goal.msg, feedback.msg, result.msg)

\* Ok(Action { .. }): the first block that fails is the result
action_of(pkg_name, action_name, goal, result, feedback) ==
    IF ~goal.ok THEN ActionErr(goal.err, goal.input)
    ELSE IF ~result.ok THEN ActionErr(result.err, result.input)
    ELSE IF ~feedback.ok THEN ActionErr(feedback.err, feedback.input)
    ELSE ActionOk(pkg_name, action_name, goal.msg, result.msg, feedback.msg)

\* the three messages named by the block instead of the action
action_tail_renamed(pkg_name, action_name, block1, s2) ==
    IF ~s2.found THEN ActionErr("InvalidActionSpecification", <<>>)
    ELSE action_of(pkg_name, action_name,
            parse_message_string(pkg_name, <<"G", "o", "a", "l">>, block1),
            parse_message_string(pkg_name, <<"R", "e", "s", "u", "l", "t">>, s2.before),
            parse_message_string(pkg_name, <<"F", "e", "e", "d", "b", "a", "c", "k">>, s2.after))

action_tail(pkg_name, action_name, block1, s2) ==
    IF ~s2.found THEN ActionErr("InvalidActionSpecification", <<>>)
    ELSE action_of(pkg_name, action_name,
            parse_message_string(pkg_name, action_name \o ACTION_GOAL_SUFFIX, block1),
            parse_message_string(pkg_name, action_name \o ACTION_RESULT_SUFFIX, s2.before),
            parse_message_string(pkg_name, action_name \o ACTION_FEEDBACK_SUFFIX, s2.after))

action_from(pkg_name, action_name, s1) ==
    IF ~s1.found THEN ActionErr("InvalidActionSpecification", <<>>)
    ELSE action_tail(pkg_name, action_name, s1.before, split_once(s1.after, Separator))

parse_action_string(pkg_name, action_name, action_string) ==
    action_from(pkg_name, action_name, split_once(fix_newlines(action_string), Separator))

\* the sections the two splitters cut the text into (<<>> when a split fails)
blocks2(sp) == IF sp.found THEN <<sp.before, sp.after>> ELSE <<>>
blocks3(s1, s2) == IF s1.found /\ s2.found THEN <<s1.before, s2.before, s2.after>> ELSE <<>>
blocks3_from(s1) == blocks3(s1, split_once(s1.after, Separator))

service_blocks(service_string) == blocks2(split_once(service_string, Separator))
action_blocks(action_string) == blocks3_from(split_once(fix_newlines(action_string), Separator))

-----------------------------------------------------------------------------
(* The artefacts derived from an Action (types/action.rs).                 *)

\* NamespacedType { package, namespace, name }, held as package/namespace/name
NamespacedTypeOf(package, namespace, name) ==
    NamespacedType(package \o <<"/">> \o namespace \o <<"/">> \o name)

\* Member { name, type, default: None } of a plain (unsequenced) type
PlainMember(name, t) == [name |-> name, type |-> NestableTypeOf(t), default |-> None]

\* the Action / Service structs
ActionStruct(pkg, name, goal, result, feedback) ==
    [package |-> pkg, name |-> name, goal |-> goal, result |-> result,
     feedback |-> feedback]
ServiceStruct(pkg, name, request, response) ==
    [package |-> pkg, name |-> name, request |-> request, response |-> response]

NsAction == <<"a", "c", "t", "i", "o", "n">>
NsMsg == <<"m", "s", "g">>

goal_id_type ==
    PlainMember(<<"g", "o", "a", "l", "_", "i", "d">>, NamespacedTypeOf(<<"u", "n", "i", "q", "u", "e", "_", "i", "d", "e", "n", "t", "i", "f", "i", "e", "r", "_", "m", "s", "g", "s">>, NsMsg, <<"U", "U", "I", "D">>))

send_goal_common(self) == self.name \o <<"_", "S", "e", "n", "d", "G", "o", "a", "l">>
get_result_common(self) == self.name \o <<"_", "G", "e", "t", "R", "e", "s", "u", "l", "t">>

\* a SendGoal service whose request lists the goal before the goal id
send_goal_srv_reordered(self) ==
    ServiceStruct(self.package, send_goal_common(self),
        Message(self.package, send_goal_common(self) \o SERVICE_REQUEST_SUFFIX,
                <<PlainMember(<<"g", "o", "a", "l">>, NamespacedTypeOf(self.package, NsAction,
                                                    self.name \o <<"_", "G", "o", "a", "l">>)),
                  goal_id_type>>,
                <<>>),
        Message(self.package, send_goal_common(self) \o SERVICE_RESPONSE_SUFFIX,
                <<PlainMember(<<"a", "c", "c", "e", "p", "t", "e", "d">>, BasicType("Bool")),
                  PlainMember(<<"s", "t", "a", "m", "p">>, NamespacedTypeOf(<<"b", "u", "i", "l", "t", "i", "n", "_", "i", "n", "t", "e", "r", "f", "a", "c", "e", "s">>, NsMsg, <<"T", "i", "m", "e">>))>>,
                <<>>))

send_goal_srv(self) ==
    ServiceStruct(self.package, send_goal_common(self),
        Message(self.package, send_goal_common(self) \o SERVICE_REQUEST_SUFFIX,
                <<goal_id_type,
                  PlainMember(<<"g", "o", "a", "l">>, NamespacedTypeOf(self.package, NsAction,
                                                    self.name \o <<"_", "G", "o", "a", "l">>))>>,
                <<>>),
        Message(self.package, send_goal_common(self) \o SERVICE_RESPONSE_SUFFIX,
                <<PlainMember(<<"a", "c", "c", "e", "p", "t", "e", "d">>, BasicType("Bool")),
                  PlainMember(<<"s", "t", "a", "m", "p">>, NamespacedTypeOf(<<"b", "u", "i", "l", "t", "i", "n", "_", "i", "n", "t", "e", "r", "f", "a", "c", "e", "s">>, NsMsg, <<"T", "i", "m", "e">>))>>,
                <<>>))

\* a GetResult service whose response refers to the bare action name
get_result_srv_unsuffixed(self) ==
    ServiceStruct(self.package, get_result_common(self),
        Message(self.package, get_result_common(self) \o SERVICE_REQUEST_SUFFIX,
                <<goal_id_type>>, <<>>),
        Message(self.package, get_result_common(self) \o SERVICE_RESPONSE_SUFFIX,
                <<PlainMember(<<"s", "t", "a", "t", "u", "s">>, BasicType("I8")),
                  PlainMember(<<"r", "e", "s", "u", "l", "t">>, NamespacedTypeOf(self.package, NsAction, self.name))>>,
                <<>>))

get_result_srv(self) ==
    ServiceStruct(self.package, get_result_common(self),
        Message(self.package, get_result_common(self) \o SERVICE_REQUEST_SUFFIX,
                <<goal_id_type>>, <<>>),
        Message(self.package, get_result_common(self) \o SERVICE_RESPONSE_SUFFIX,
                <<PlainMember(<<"s", "t", "a", "t", "u", "s">>, BasicType("I8")),
                  PlainMember(<<"r", "e", "s", "u", "l", "t">>, NamespacedTypeOf(self.package, NsAction,
                                                    self.name \o <<"_", "R", "e", "s", "u", "l", "t">>))>>,
                <<>>))

\* a feedback message without the goal id
feedback_message_msg_anonymous(self) ==
    Message(self.package, self.name \o <<"_", "F", "e", "e", "d", "b", "a", "c", "k", "M", "e", "s", "s", "a", "g", "e">>,
            <<PlainMember(<<"f", "e", "e", "d", "b", "a", "c", "k">>, NamespacedTypeOf(self.package, NsAction,
                                                self.name \o <<"_", "F", "e", "e", "d", "b", "a", "c", "k">>))>>,
            <<>>)

feedback_message_msg(self) ==
    Message(self.package, self.name \o <<"_", "F", "e", "e", "d", "b", "a", "c", "k", "M", "e", "s", "s", "a", "g", "e">>,
            <<goal_id_type,
              PlainMember(<<"f", "e", "e", "d", "b", "a", "c", "k">>, NamespacedTypeOf(self.package, NsAction,
                                                self.name \o <<"_", "F", "e", "e", "d", "b", "a", "c", "k">>))>>,
            <<>>)

-----------------------------------------------------------------------------
(* The package loaders (parser/package.rs, cfg.rs, compile.rs).         *)

\* the characters of names and paths in ascending byte order
Bytes ==
    <<
      ".", "/", "0", "1", "2", "3", "4", "5", "6", "7", "8", "9", "A",
      "B", "C", "D", "E", "F", "G", "H", "I", "J", "K", "L", "M", "N",
      "O", "P", "Q", "R", "S", "T", "U", "V", "W", "X", "Y", "Z", "_",
      "a", "b", "c", "d", "e", "f", "g", "h", "i", "j", "k", "l", "m",
      "n", "o", "p", "q", "r", "s", "t", "u", "v", "w", "x", "y", "z"
    >>
ByteOf(c) == CHOOSE i \in DOMAIN Bytes : Bytes[i] = c

\* str::cmp(a, b) = Less: byte-wise lexicographic order
RECURSIVE str_less(_, _)
str_less(a, b) ==
    IF b = <<>> THEN FALSE
    ELSE IF a = <<>> THEN TRUE
    ELSE IF Head(a) = Head(b) THEN str_less(Tail(a), Tail(b))
    ELSE ByteOf(Head(a)) < ByteOf(Head(b))

\* index of the last occurrence of character c in s, 0 when there is none
rfind(s, c) == IF \E i \in DOMAIN s : s[i] = c
               THEN Greatest({i \in DOMAIN s : s[i] = c}) ELSE 0

NsSrv == <<"s", "r", "v">>
IdlExt == <<".", "i", "d", "l">>

\* Result<Option<IdlLine>>
LineSkipped == [ok |-> TRUE, some |-> FALSE, ns |-> <<>>, file_name |-> <<>>, input |-> <<>>]
LineErr(ln) == [ok |-> FALSE, some |-> FALSE, ns |-> <<>>, file_name |-> <<>>, input |-> ln]
IdlLine(ns, file_name) ==
    [ok |-> TRUE, some |-> TRUE, ns |-> ns, file_name |-> file_name, input |-> <<>>]

\* Path::with_extension: the path is copied without the extension of its last
\* component and set_extension adds the new one. A component without
\* extension (no dot, or only a leading dot) is copied whole; when the copy
\* ends in the component "..", it has no file name and nothing is added
with_extension_at(path, ext, slash, dot) ==
    IF dot <= slash + 1 THEN path \o <<".">> \o ext
    ELSE IF dot = slash + 2 /\ path[slash + 1] = "." THEN Take(path, dot)
    ELSE Take(path, dot) \o ext
with_extension(path, ext) == with_extension_at(path, ext, rfind(path, "/"), rfind(path, "."))

\* a line of an unknown namespace is skipped instead of refused
idl_line_of_lenient(ln, sp) ==
    IF ~sp.found THEN LineErr(ln)
    ELSE IF sp.before \in {NsMsg, NsSrv, NsAction}
    THEN IdlLine(sp.before, with_extension(sp.after, sp.before))
    ELSE LineSkipped

idl_line_of(ln, sp) ==
    IF ~sp.found THEN LineErr(ln)
    ELSE IF sp.before \in {NsMsg, NsSrv, NsAction}
    THEN IdlLine(sp.before, with_extension(sp.after, sp.before))
    ELSE LineErr(ln)

parse_line(ln) ==
    IF ~ends_with(ln, IdlExt) THEN LineSkipped
    ELSE idl_line_of(ln, split_once(ln, <<"/">>))

\* IdlLine::name: the file name up to its last dot
idl_name(l) == Take(l.file_name, rfind(l.file_name, ".") - 1)

\* convert_case: the word boundaries camel2snake asks for, between s[i] and s[i + 1]
lower_upper(s, i) == s[i] \in Lower /\ s[i + 1] \in Upper
digit_upper(s, i) == s[i] \in DigitSet /\ s[i + 1] \in Upper
acronym(s, i) == i + 2 <= Len(s) /\ s[i] \in Upper /\ s[i + 1] \in Upper /\ s[i + 2] \in Lower

\* the boundaries without the acronym rule
is_boundary_camel_only(s, i) == lower_upper(s, i) \/ digit_upper(s, i)

\* with_boundaries(&[LowerUpper, DigitUpper, Acronym])
is_boundary(s, i) == lower_upper(s, i) \/ digit_upper(s, i) \/ acronym(s, i)

\* the length of the first word of the non-empty s
first_word(s) == Least({i \in 1..Len(s) : i = Len(s) \/ is_boundary(s, i)})

RECURSIVE split_words(_)
split_words(s) ==
    IF s = <<>> THEN <<>>
    ELSE <<Take(s, first_word(s))>> \o split_words(Drop(s, first_word(s)))

\* char::to_lowercase on the characters of Bytes
to_lowercase(c) == IF c \in Upper THEN Bytes[ByteOf(c) + 27] ELSE c
lowercase(w) == [i \in DOMAIN w |-> to_lowercase(w[i])]

\* Case::Snake: the words in lower case, joined by underscores
RECURSIVE join_snake(_)
join_snake(ws) ==
    IF ws = <<>> THEN <<>>
    ELSE IF Len(ws) = 1 THEN lowercase(ws[1])
    ELSE lowercase(ws[1]) \o <<"_">> \o join_snake(Tail(ws))

camel2snake(input) == join_snake(split_words(input))

\* Result<Vec<IdlPackage>>
IdlOk(pkgs) == [ok |-> TRUE, err |-> "", input |-> <<>>, packages |-> pkgs]
IdlErr(e, input) == [ok |-> FALSE, err |-> e, input |-> input, packages |-> <<>>]

\* the lines of an index file that parse_line refuses / accepts, in file order
refused_lines(ls) == SelectSeq(ls, LAMBDA l : ~parse_line(l).ok)
idl_lines(ls) ==
    SelectSeq([i \in DOMAIN ls |-> parse_line(ls[i])], LAMBDA l : l.some)

\* a resource directory is the sequence of its index files in read_dir
\* order; every line of every file is parsed and the first refused line
\* fails the whole directory
load_rosidl_interfaces(dir) ==
    IF \E i \in DOMAIN dir : refused_lines(dir[i].lns) # <<>>
    THEN IdlErr("UnknownType",
                Head(refused_lines(
                    dir[Least({i \in DOMAIN dir : refused_lines(dir[i].lns) # <<>>})].lns)))
    ELSE IdlOk([i \in DOMAIN dir |->
                   [pkg_name |-> dir[i].pkg_name, lns |-> idl_lines(dir[i].lns)]])

\* the content of the definition file share/<pkg>/<ns>/<file_name>: the
\* files named Bad are malformed, every other file is a smallest valid one
MsgText == <<"i", "n", "t", "3", "2", " ", "a">> \o <<NL>>
BadMsgText == <<"i", "n", "t", "3", "2">> \o <<NL>>
file_content(l) ==
    IF l.ns = NsMsg THEN (IF idl_name(l) = <<"B", "a", "d">> THEN BadMsgText ELSE MsgText)
    ELSE IF l.ns = NsSrv THEN (IF idl_name(l) = <<"B", "a", "d">> THEN MsgText ELSE Separator)
    ELSE (IF idl_name(l) = <<"B", "a", "d">> THEN Separator ELSE Separator \o Separator)

\* the components of a path: a trailing separator and a "." after the first
\* component are no components
RECURSIVE trim_path(_)
trim_path(path) ==
    IF path # <<>> /\ path[Len(path)] = "/" THEN trim_path(Take(path, Len(path) - 1))
    ELSE IF ends_with(path, <<"/", ".">>) THEN trim_path(Take(path, Len(path) - 2))
    ELSE path

\* Path::file_name: the last component of the path, None when there is none
\* or when it is "." or ".."
last_component(path) == Drop(path, rfind(path, "/"))
normal_component(c) == IF c \in {<<>>, <<".">>, <<".", ".">>} THEN None ELSE Some(c)
path_file_name(path) == normal_component(last_component(trim_path(path)))

\* Path::file_stem: the file name up to its last dot, or the whole file name
\* when it has no dot or only a leading one; None when there is no file name
stem_at(name, dot) == IF dot <= 1 THEN name ELSE Take(name, dot - 1)
stem_of(n) == IF ~n.some THEN None ELSE Some(stem_at(n.v, rfind(n.v, ".")))
file_stem(path) == stem_of(path_file_name(path))

\* PathBuf::push: an absolute segment replaces the path, any other segment
\* is joined to it with one separator
push(path, seg) ==
    IF seg # <<>> /\ seg[1] = "/" THEN seg
    ELSE IF path = <<>> \/ path[Len(path)] = "/" THEN path \o seg
    ELSE path \o <<"/">> \o seg

\* path!(&pkg_name / "msg" / &*file_name) and its srv and action forms; the
\* file that is read, share_dir / share_suffix, ends in the same component
share_suffix(pkg_name, l) == push(push(pkg_name, l.ns), l.file_name)

\* Result<String> of fs::read_to_string
ReadOk(content) == [ok |-> TRUE, v |-> content]
ReadErr == [ok |-> FALSE, v |-> <<>>]

\* fs::read_to_string of the definition file of line l at path: a path with
\* no file name names a directory, which cannot be read as a file
read_to_string(path, l) ==
    IF ~path_file_name(path).some THEN ReadErr ELSE ReadOk(file_content(l))

\* the panic of Option::unwrap on the None of Path::file_stem
PanicUnwrapNone == "PanicUnwrapNone"
Panics == {PanicUnwrapNone}

\* parse_message_file and parse_action_file take the file stem, unwrapped,
\* before they read the file; rd is the Result of the read
parse_message_file(pkg_name, interface_file, rd) ==
    IF ~file_stem(interface_file).some THEN MessageErr(PanicUnwrapNone, interface_file)
    ELSE IF ~rd.ok THEN MessageErr("ReadError", interface_file)
    ELSE parse_message_string(pkg_name, file_stem(interface_file).v, rd.v)

parse_action_file(pkg_name, interface_file, rd) ==
    IF ~file_stem(interface_file).some THEN ActionErr(PanicUnwrapNone, interface_file)
    ELSE IF ~rd.ok THEN ActionErr("ReadError", interface_file)
    ELSE parse_action_string(pkg_name, file_stem(interface_file).v, rd.v)

\* parse_service_file reads the file first and takes the file stem after
parse_service_file(pkg_name, interface_file, rd) ==
    IF ~rd.ok THEN ServiceErr("ReadError", interface_file)
    ELSE IF ~file_stem(interface_file).some THEN ServiceErr(PanicUnwrapNone, interface_file)
    ELSE parse_service_string(pkg_name, file_stem(interface_file).v, service_file_text(rd.v))

\* the parser of the namespace of line l on the file at path
parse_file_at(pkg_name, l, path) ==
    IF l.ns = NsMsg THEN parse_message_file(pkg_name, path, read_to_string(path, l))
    ELSE IF l.ns = NsSrv THEN parse_service_file(pkg_name, path, read_to_string(path, l))
    ELSE parse_action_file(pkg_name, path, read_to_string(path, l))

\* parse_message_file / parse_service_file / parse_action_file on the file of
\* an IdlLine
parse_idl_file(pkg_name, l) == parse_file_at(pkg_name, l, share_suffix(pkg_name, l))

\* the Service inside a successful Result<Service>
ServiceIn(r) == ServiceStruct(r.package, r.name, r.request, r.response)
\* the Action inside a successful Result<Action>
ActionIn(r) == ActionStruct(r.package, r.name, r.goal, r.result, r.feedback)

\* a definition file read for line l: the line and the Result of its parser
ParsedLine(l, r) == [ns |-> l.ns, file_name |-> l.file_name, res |-> r]
parsed_lines(pkg) ==
    [i \in DOMAIN pkg.lns |-> ParsedLine(pkg.lns[i], parse_idl_file(pkg.pkg_name, pkg.lns[i]))]

\* the parsed lines of namespace ns, in file order
lines_of(pls, ns) == SelectSeq(pls, LAMBDA l : l.ns = ns)

\* msgs.push / srvs.push / actions.push, one per line, in file order
pushed_msgs(pls) == [i \in DOMAIN pls |-> pls[i].res.msg]
pushed_srvs(pls) == [i \in DOMAIN pls |-> ServiceIn(pls[i].res)]
pushed_actions(pls) == [i \in DOMAIN pls |-> ActionIn(pls[i].res)]

\* Package { name, msgs, srvs, actions, share_suffixes, .. }
Package(name, msgs, srvs, actions, share_suffixes) ==
    [name |-> name, msgs |-> msgs, srvs |-> srvs, actions |-> actions,
     share_suffixes |-> share_suffixes]

\* Result<Package>
PackageOk(pkg) == [ok |-> TRUE, err |-> "", input |-> <<>>, package |-> pkg]
PackageErr(e, input) ==
    [ok |-> FALSE, err |-> e, input |-> input, package |-> Package(<<>>, <<>>, <<>>, <<>>, <<>>)]

\* the failure of the parsed line pl: "unable to parse file" around the error
\* of its parser, or the panic of its parser as it is
failed_line(pl) ==
    IF pl.res.err \in Panics THEN PackageErr(pl.res.err, pl.file_name)
    ELSE PackageErr("UnableToParseFile", pl.file_name)

\* the Package of the parsed lines; the first file that does not parse, or
\* that makes its parser panic, ends it
package_of(pkg_name, pls) ==
    IF \E i \in DOMAIN pls : ~pls[i].res.ok
    THEN failed_line(pls[Least({i \in DOMAIN pls : ~pls[i].res.ok})])
    ELSE PackageOk(Package(pkg_name,
            pushed_msgs(lines_of(pls, NsMsg)),
            pushed_srvs(lines_of(pls, NsSrv)),
            pushed_actions(lines_of(pls, NsAction)),
            [i \in DOMAIN pls |-> share_suffix(pkg_name, pls[i])]))

\* Result<AmentPrefix>
PrefixOk(pkgs) == [ok |-> TRUE, err |-> "", input |-> <<>>, packages |-> pkgs]
PrefixErr(e, input) == [ok |-> FALSE, err |-> e, input |-> input, packages |-> <<>>]

\* try_collect: the Packages, or the first failure
collect_packages(rs) ==
    IF \E i \in DOMAIN rs : ~rs[i].ok
    THEN PrefixErr(rs[Least({i \in DOMAIN rs : ~rs[i].ok})].err,
                   rs[Least({i \in DOMAIN rs : ~rs[i].ok})].input)
    ELSE PrefixOk([i \in DOMAIN rs |-> rs[i].package])

\* the packages that are not excluded, each built from its definition files
load_packages(pkgs) ==
    collect_packages([i \in DOMAIN pkgs |->
                         package_of(pkgs[i].pkg_name, parsed_lines(pkgs[i]))])

\* every package of the index is built, excluded or not
load_unfiltered(idl, exclude_packages) ==
    IF ~idl.ok THEN PrefixErr(idl.err, idl.input)
    ELSE load_packages(idl.packages)

load_filtered(idl, exclude_packages) ==
    IF ~idl.ok THEN PrefixErr(idl.err, idl.input)
    ELSE load_packages(SelectSeq(idl.packages, LAMBDA p : p.pkg_name \notin exclude_packages))

\* AmentPrefix::load of the prefix whose resource directory is dir
load(dir, exclude_packages) == load_filtered(load_rosidl_interfaces(dir), exclude_packages)

\* Result<Vec<AmentPrefix>>
AmentsOk(aments) == [ok |-> TRUE, err |-> "", input |-> <<>>, aments |-> aments]
AmentsErr(e, input) == [ok |-> FALSE, err |-> e, input |-> input, aments |-> <<>>]

\* try_collect: the prefixes, or the first failure
collect_aments(rs) ==
    IF \E i \in DOMAIN rs : ~rs[i].ok
    THEN AmentsErr(rs[Least({i \in DOMAIN rs : ~rs[i].ok})].err,
                   rs[Least({i \in DOMAIN rs : ~rs[i].ok})].input)
    ELSE AmentsOk(rs)

\* the prefixes at the roots, loaded in order
load_roots(roots, exclude_packages, files) ==
    collect_aments([i \in DOMAIN roots |-> load(files[roots[i]], exclude_packages)])

\* the roots of $AMENT_PREFIX_PATH (when searched) and then the configured ones
load_ament_prefixes(cfg, env, files) ==
    IF cfg.search_env /\ ~env.set THEN AmentsErr("EnvNotSet", <<>>)
    ELSE load_roots((IF cfg.search_env THEN env.paths ELSE <<>>)
                        \o cfg.ament_prefix_paths,
                    cfg.exclude_packages, files)

\* aments.iter().flat_map(|ament| &ament.packages)
RECURSIVE flat_packages(_)
flat_packages(aments) ==
    IF aments = <<>> THEN <<>>
    ELSE Head(aments).packages \o flat_packages(Tail(aments))

\* Vec::sort_by on the name: stable, so x goes behind the names not above its own
insert_by_name(sorted, x) ==
    Take(sorted, Cardinality({i \in DOMAIN sorted : ~str_less(x.name, sorted[i].name)}))
        \o <<x>>
        \o Drop(sorted, Cardinality({i \in DOMAIN sorted : ~str_less(x.name, sorted[i].name)}))

RECURSIVE sort_by_name(_)
sort_by_name(ps) ==
    IF ps = <<>> THEN <<>>
    ELSE insert_by_name(sort_by_name(Take(ps, Len(ps) - 1)), ps[Len(ps)])

\* the k-th least element of a set of integers
Nth(S, k) == CHOOSE i \in S : Cardinality({j \in S : j < i}) = k - 1

\* dedup_by_with_count: every run of neighbours of one name, with its length
run_starts(ps) == {i \in DOMAIN ps : i = 1 \/ ps[i - 1].name # ps[i].name}
run_end(ps, i) == Least({j \in i..Len(ps) : j = Len(ps) \/ ps[j + 1].name # ps[i].name})
dedup_by_with_count(ps) ==
    [k \in 1..Cardinality(run_starts(ps)) |->
        [count |-> run_end(ps, Nth(run_starts(ps), k)) - Nth(run_starts(ps), k) + 1,
         name |-> ps[Nth(run_starts(ps), k)].name]]

\* Result<Vec<String>>
NamesOk(names) == [ok |-> TRUE, err |-> "", input |-> <<>>, package_names |-> names]
NamesErr(e, input) == [ok |-> FALSE, err |-> e, input |-> input, package_names |-> <<>>]

\* the names of the runs without a check of their length
collect_names_unchecked(runs) == NamesOk([k \in DOMAIN runs |-> runs[k].name])

\* ensure!(count == 1, "multiple '{}' packages found", pkg.name)
collect_names(runs) ==
    IF \E k \in DOMAIN runs : runs[k].count # 1
    THEN NamesErr("MultiplePackagesFound",
                  runs[Least({k \in DOMAIN runs : runs[k].count # 1})].name)
    ELSE NamesOk([k \in DOMAIN runs |-> runs[k].name])

\* the duplicate check of build and run
package_names_of(aments) ==
    collect_names(dedup_by_with_count(sort_by_name(flat_packages(aments))))

\* Result<Compiler> / Result<CompileOutput>
BuildOk(names, aments) ==
    [ok |-> TRUE, err |-> "", input |-> <<>>, package_names |-> names, aments |-> aments]
BuildErr(e, input) ==
    [ok |-> FALSE, err |-> e, input |-> input, package_names |-> <<>>, aments |-> <<>>]

build_from(loaded, names) ==
    IF ~loaded.ok THEN BuildErr(loaded.err, loaded.input)
    ELSE IF ~names.ok THEN BuildErr(names.err, names.input)
    ELSE BuildOk(names.package_names, loaded.aments)

build_of(loaded) == build_from(loaded, package_names_of(loaded.aments))

\* CompileConfig::build (config.rs)
build(cfg, env, files) == build_of(load_ament_prefixes(cfg, env, files))

\* Option<cc::Build>: the include directories (the include_dir of a prefix,
\* held as its root) and the files of the build
NoBuild == [some |-> FALSE, includes |-> <<>>, files |-> <<>>]
CcBuild(includes, files) == [some |-> TRUE, includes |-> includes, files |-> files]

\* Result<CompileOutput> of the older compile module; a panic is an outcome
\* of its own
RunOk(names, commands, rust_files, cc_build, c_files) ==
    [ok |-> TRUE, err |-> "", input |-> <<>>, package_names |-> names,
     build_commands |-> commands, generated_rust_files |-> rust_files,
     cc_build |-> cc_build, generated_c_files |-> c_files]
RunErr(e, input) ==
    [ok |-> FALSE, err |-> e, input |-> input, package_names |-> <<>>,
     build_commands |-> <<>>, generated_rust_files |-> <<>>,
     cc_build |-> NoBuild, generated_c_files |-> <<>>]

\* Ident::new (proc_macro2): a letter or '_', then letters, digits and '_'
is_ident(s) ==
    /\ s # <<>>
    /\ s[1] \in Lower \cup Upper \cup {"_"}
    /\ \A i \in DOMAIN s : s[i] \in Lower \cup Upper \cup DigitSet \cup {"_"}
\* the panic of Ident::new on a text that is no identifier
ident_panic(s) ==
    IF s = <<>> THEN "PanicIdentEmpty"
    ELSE IF \A i \in DOMAIN s : s[i] \in DigitSet THEN "PanicIdentIsNumber"
    ELSE "PanicNotAValidIdent"

\* the files run_codegen_file / run_codegen_dir write for the sorted packages
rust_files_of(names, single_file) ==
    IF single_file THEN <<<<"r", "u", "s", "t", "_", "s", "r", "c", "/", "f", "f", "i", ".", "r", "s">>>>
    ELSE [i \in DOMAIN names |-> <<"r", "u", "s", "t", "_", "s", "r", "c", "/">> \o names[i] \o <<".", "r", "s">>]

\* a build command: what it is, the prefix (by its root) and the directory
\* or environment variable it names, and the library of a link-lib command
Command(cmd, root, dir, lib) == [cmd |-> cmd, root |-> root, dir |-> dir, lib |-> lib]

\* Package.libraries: the C libraries of the package, as AmentPrefix::load
\* names them
libraries(pkg_name) ==
    <<pkg_name \o <<"_", "_", "r", "o", "s", "i", "d", "l", "_", "g", "e", "n", "e", "r", "a", "t", "o", "r", "_", "c">>,
      pkg_name \o <<"_", "_", "r", "o", "s", "i", "d", "l", "_", "t", "y", "p", "e", "s", "u", "p", "p", "o", "r", "t", "_", "c">>>>

\* cargo:rustc-link-search of the lib_dir of every prefix
link_searches(roots) ==
    [i \in DOMAIN roots |-> Command("rustc-link-search", roots[i], "lib_dir", <<>>)]
\* cargo:rustc-link-lib of every library of every package, prefix by prefix
link_libs(pkgs) ==
    [i \in 1..(2 * Len(pkgs)) |->
        Command("rustc-link-lib", 0, "dylib", libraries(pkgs[(i + 1) \div 2].name)[((i - 1) % 2) + 1])]

c_file == <<"c", "_", "s", "r", "c", "/", "f", "f", "i", ".", "c">>

\* the compile step of run: without a cc::Build nothing is added; with one,
\* configure_cc_build gives it the include directories and the C file and
\* adds the link commands
compile_of(out, cc_build, roots, aments) ==
    IF ~out.ok \/ ~cc_build THEN out
    ELSE RunOk(out.package_names,
               out.build_commands \o link_searches(roots) \o link_libs(flat_packages(aments)),
               out.generated_rust_files, CcBuild(roots, <<c_file>>), <<c_file>>)

\* the code generation of run: Package::token_stream makes an Ident of the
\* name of every package, in the sorted order (which, after the duplicate
\* check, is the order of package_names), and panics at the first that is none
codegen_of(names, commands, single_file) ==
    IF \E i \in DOMAIN names : ~is_ident(names[i])
    THEN RunErr(ident_panic(names[Least({i \in DOMAIN names : ~is_ident(names[i])})]),
                names[Least({i \in DOMAIN names : ~is_ident(names[i])})])
    ELSE RunOk(names, commands, rust_files_of(names, single_file), NoBuild, <<>>)

\* cargo:rerun-if-env-changed and the three cargo:rerun-if-changed of every
\* prefix
rerun_ifs(roots) ==
    [i \in 1..(3 * Len(roots)) |->
        Command("rerun-if-changed", roots[(i + 2) \div 3],
                <<"resource_dir", "lib_dir", "include_dir">>[((i - 1) % 3) + 1], <<>>)]
\* the roots of the prefixes that run loads
roots_of(cfg, env) ==
    (IF cfg.search_env THEN env.paths ELSE <<>>) \o cfg.ament_prefix_paths
build_commands_of(cfg, env) ==
    IF cfg.search_env
    THEN <<Command("rerun-if-env-changed", 0, "AMENT_PREFIX_PATH", <<>>)>>
         \o rerun_ifs(roots_of(cfg, env))
    ELSE rerun_ifs(roots_of(cfg, env))

\* run up to the code generation
run_from(loaded, names, commands, codegen, single_file) ==
    IF ~loaded.ok THEN RunErr(loaded.err, loaded.input)
    ELSE IF ~names.ok THEN RunErr(names.err, names.input)
    ELSE IF ~codegen THEN RunOk(names.package_names, commands, <<>>, NoBuild, <<>>)
    ELSE codegen_of(names.package_names, commands, single_file)

run_of(loaded, cfg, env) ==
    compile_of(run_from(loaded, package_names_of(loaded.aments), build_commands_of(cfg, env),
                        cfg.codegen, cfg.codegen_single_file),
               cfg.cc_build, roots_of(cfg, env), loaded.aments)

\* CompileConfig::run (compile.rs)
run(cfg, env, files) == run_of(load_ament_prefixes(cfg, env, files), cfg, env)

\* Path::extension of a file name: what follows its last dot, unless the name
\* has no dot or only a leading one
has_extension(file_name) == rfind(file_name, ".") > 1
extension(file_name) == Drop(file_name, rfind(file_name, "."))

\* a subdirectory of a package directory: absent, or its file names in
\* read_dir order
NoDir == [exists |-> FALSE, files |-> <<>>]
Dir(files) == [exists |-> TRUE, files |-> files]

\* the files of the subdirectory ns that have the extension ns, as lines
definition_files(d, ns) ==
    [i \in DOMAIN SelectSeq(d.files, LAMBDA f : has_extension(f) /\ extension(f) = ns) |->
        IdlLine(ns, SelectSeq(d.files, LAMBDA f : has_extension(f) /\ extension(f) = ns)[i])]

\* the three subdirectories read in the order msg, srv, action
all_definition_files(pd) ==
    definition_files(pd.msg, NsMsg) \o definition_files(pd.srv, NsSrv)
        \o definition_files(pd.action, NsAction)

\* Package::is_empty
is_empty(package) ==
    package.msgs = <<>> /\ package.srvs = <<>> /\ package.actions = <<>>

\* ensure!(package.is_empty(), "None of msg, srv, action directory found in ..")
ensure_is_empty(r) ==
    IF ~r.ok THEN r
    ELSE IF is_empty(r.package) THEN r
    ELSE PackageErr("NoneOfMsgSrvActionFound", <<>>)

\* Package::new(pkg_name) with the definitions pushed, no suffix recorded, or
\* the error of the first parser that fails, returned as it is
pushed_package(pkg_name, pls) ==
    IF \E i \in DOMAIN pls : ~pls[i].res.ok
    THEN PackageErr(pls[Least({i \in DOMAIN pls : ~pls[i].res.ok})].res.err,
                    pls[Least({i \in DOMAIN pls : ~pls[i].res.ok})].res.input)
    ELSE PackageOk(Package(pkg_name,
            pushed_msgs(lines_of(pls, NsMsg)),
            pushed_srvs(lines_of(pls, NsSrv)),
            pushed_actions(lines_of(pls, NsAction)), <<>>))

\* CompileConfig { search_env, ament_prefix_paths, exclude_packages, .. } with
\* the fields of the older compile module, which start as its new sets them:
\* codegen, codegen_single_file and whether cc_build holds a cc::Build
Config(search_env, paths, exclude) ==
    [search_env |-> search_env, ament_prefix_paths |-> paths, exclude_packages |-> exclude,
     codegen |-> TRUE, codegen_single_file |-> TRUE, cc_build |-> FALSE]

DEFAULT_EXCLUDED_PACKAGES == {<<"l", "i", "b", "s", "t", "a", "t", "i", "s", "t", "i", "c", "s", "_", "c", "o", "l", "l", "e", "c", "t", "o", "r">>}

\* CompileConfig::new and the builder methods
new == Config(TRUE, <<>>, DEFAULT_EXCLUDED_PACKAGES)
set_search_env(cfg, yes) == [cfg EXCEPT !.search_env = yes]
ament_prefix_path(cfg, dir) ==
    [cfg EXCEPT !.ament_prefix_paths = Append(cfg.ament_prefix_paths, dir)]
add_ament_prefix_paths(cfg, dirs) ==
    [cfg EXCEPT !.ament_prefix_paths = cfg.ament_prefix_paths \o dirs]
clear_exclude_packages(cfg) == [cfg EXCEPT !.exclude_packages = {}]
exclude_package(cfg, package) ==
    [cfg EXCEPT !.exclude_packages = cfg.exclude_packages \cup {package}]
add_exclude_packages(cfg, packages) ==
    [cfg EXCEPT !.exclude_packages = cfg.exclude_packages \cup packages]

\* the builder methods of the older compile module: codegen,
\* codegen_single_file and compile_ffi, whose argument is a cc::Build or None
set_codegen(cfg, yes) == [cfg EXCEPT !.codegen = yes]
set_codegen_single_file(cfg, yes) == [cfg EXCEPT !.codegen_single_file = yes]
compile_ffi(cfg, cc) == [cfg EXCEPT !.cc_build = cc]

BuilderCalls ==
    {"new", "search_env", "ament_prefix_path", "ament_prefix_paths",
     "clear_exclude_packages", "exclude_package", "exclude_packages",
     "codegen", "codegen_single_file", "compile_ffi"}

\* load_package_dir on the package directory pd
load_package_dir(pd) ==
    ensure_is_empty(
        pushed_package(pd.name, parsed_lines([pkg_name |-> pd.name,
                                              lns |-> all_definition_files(pd)])))

-----------------------------------------------------------------------------
(* The inputs of the model.                                                *)

PkgName == <<"t", "e", "s", "t", "_", "m", "s", "g", "s">>
SrvName == <<"A", "r", "r", "a", "y", "s">>
SrvFile == SrvName \o <<".", "s", "r", "v">>
ActionName == <<"F", "i", "b", "o", "n", "a", "c", "c", "i">>

\* the lines an interface file of the model is written from
DeclLine == <<"i", "n", "t", "3", "2", " ", "a">>
SepLine == <<"-", "-", "-">>
CommentLine == <<"#", " ", "s", "e", "e", " ", "-", "-", "-">>
DashLine == <<"-", "-", "-", "-">>
ConstLine == <<"i", "n", "t", "3", "2", " ", "X", "=", "1">>
BadLine == <<"i", "n", "t", "3", "2">>
LineBodies == {DeclLine, ConstLine, SepLine, CommentLine, DashLine, BadLine}
Eols == {<<NL>>, <<CR, NL>>}

\* the lines ls, each ended by eol; the last one only when final
RECURSIVE FileText(_, _, _)
FileText(ls, eol, final) ==
    IF ls = <<>> THEN <<>>
    ELSE IF Len(ls) = 1 THEN Head(ls) \o (IF final THEN eol ELSE <<>>)
    ELSE Head(ls) \o eol \o FileText(Tail(ls), eol, final)

Texts ==
    {FileText(ls, eol, final) :
        ls \in UNION {[1..k -> LineBodies] : k \in 0..MaxLines},
        eol \in Eols, final \in BOOLEAN}

\* the decimal text of a natural number
RECURSIVE Dec(_)
Dec(n) == IF n < 10 THEN <<Digits[n + 1]>> ELSE Dec(n \div 10) \o <<Digits[(n % 10) + 1]>>

W8 == <<"8">>
W16 == <<"1", "6">>
W32 == <<"3", "2">>
W64 == <<"6", "4">>
TokInt32 == KwInt \o W32
TokFoo == <<"F", "o", "o">>
TokPkgFoo == <<"p", "k", "g", "/", "F", "o", "o">>

IntTypeToks == {kw \o w : kw \in {KwInt, KwUint}, w \in {W8, W16, W32, W64}}
ElemToks == {TokInt32, KwString, KwWString, TokFoo, TokPkgFoo}
ArraySuffix(n) == <<"[">> \o Dec(n) \o <<"]">>
SeqSuffix == <<"[", "]">>
BoundedSuffix(n) == <<"[", "<", "=">> \o Dec(n) \o <<"]">>

\* the declared types of the model: an element type alone, or in a container
TypeInputs ==
    {[elem |-> e, kind |-> "scalar", n |-> 0] : e \in IntTypeToks \cup ElemToks}
    \cup {[elem |-> e, kind |-> "seq", n |-> 0] : e \in ElemToks}
    \cup {[elem |-> e, kind |-> k, n |-> n] :
            e \in ElemToks, k \in {"array", "bounded"}, n \in 1..MaxSize}

TypeText(ti) ==
    ti.elem \o (CASE ti.kind = "scalar" -> <<>>
                  [] ti.kind = "seq" -> SeqSuffix
                  [] ti.kind = "array" -> ArraySuffix(ti.n)
                  [] OTHER -> BoundedSuffix(ti.n))

\* the integer literals of the model in ascending order: the least and
\* greatest value of every integer type, the values next to them, and 30
IntLine ==
    <<<<"-", "9", "2", "2", "3", "3", "7", "2", "0", "3", "6", "8", "5", "4", "7", "7", "5", "8", "0", "9">>,
     <<"-", "9", "2", "2", "3", "3", "7", "2", "0", "3", "6", "8", "5", "4", "7", "7", "5", "8", "0", "8">>,
     <<"-", "2", "1", "4", "7", "4", "8", "3", "6", "4", "9">>,
     <<"-", "2", "1", "4", "7", "4", "8", "3", "6", "4", "8">>,
     <<"-", "3", "2", "7", "6", "9">>,
     <<"-", "3", "2", "7", "6", "8">>,
     <<"-", "1", "2", "9">>,
     <<"-", "1", "2", "8">>,
     <<"-", "1">>,
     <<"0">>,
     <<"3", "0">>,
     <<"1", "2", "7">>,
     <<"1", "2", "8">>,
     <<"2", "5", "5">>,
     <<"2", "5", "6">>,
     <<"3", "2", "7", "6", "7">>,
     <<"3", "2", "7", "6", "8">>,
     <<"6", "5", "5", "3", "5">>,
     <<"6", "5", "5", "3", "6">>,
     <<"2", "1", "4", "7", "4", "8", "3", "6", "4", "7">>,
     <<"2", "1", "4", "7", "4", "8", "3", "6", "4", "8">>,
     <<"4", "2", "9", "4", "9", "6", "7", "2", "9", "5">>,
     <<"4", "2", "9", "4", "9", "6", "7", "2", "9", "6">>,
     <<"9", "2", "2", "3", "3", "7", "2", "0", "3", "6", "8", "5", "4", "7", "7", "5", "8", "0", "7">>,
     <<"9", "2", "2", "3", "3", "7", "2", "0", "3", "6", "8", "5", "4", "7", "7", "5", "8", "0", "8">>,
     <<"1", "8", "4", "4", "6", "7", "4", "4", "0", "7", "3", "7", "0", "9", "5", "5", "1", "6", "1", "5">>,
     <<"1", "8", "4", "4", "6", "7", "4", "4", "0", "7", "3", "7", "0", "9", "5", "5", "1", "6", "1", "6">>>>

IntValues == {IntLine[i] : i \in DOMAIN IntLine}

\* "[1, 2, ..., k]"
RECURSIVE IntItems(_)
IntItems(k) ==
    IF k = 0 THEN <<>>
    ELSE IF k = 1 THEN Dec(1)
    ELSE IntItems(k - 1) \o <<",", SP>> \o Dec(k)
IntList(k) == <<"[">> \o IntItems(k) \o <<"]">>

Letters == <<"a", "b", "c", "d", "e", "f", "g", "h">>

\* "['a', 'b', ...]" with k elements
RECURSIVE StrItems(_)
StrItems(k) ==
    IF k = 0 THEN <<>>
    ELSE IF k = 1 THEN <<"'", Letters[1], "'">>
    ELSE StrItems(k - 1) \o <<",", SP, "'", Letters[k], "'">>
StrList(k) == <<"[">> \o StrItems(k) \o <<"]">>

StrValue == <<"'", "a", "'">>

\* values with text left over after the literal: "30 4", "30x", "'a' 'b'"
TrailValues ==
    {<<"3", "0", SP, "4">>, <<"3", "0", "x">>, StrValue \o <<SP, "'", "b", "'">>}

Values ==
    IntValues \cup {StrValue} \cup TrailValues
              \cup {IntList(k) : k \in 0..MaxElems}
              \cup {StrList(k) : k \in 0..MaxElems}

MemberNameText == <<"a", "a", "a">>
ConstantNameText == <<"A", "A", "A">>
EqTight == <<"=">>
EqLoose == <<SP, "=", SP>>

\* the pieces a line of the model is written from: <type> <name><sep><value>
LineOf(form, ti, name, sep, val) ==
    [form |-> form, elem |-> ti.elem, kind |-> ti.kind, n |-> ti.n,
     name |-> name, sep |-> sep, val |-> val]

LineInputs ==
    {LineOf("member", ti, MemberNameText, <<>>, <<>>) : ti \in TypeInputs}
    \cup {LineOf("member", ti, MemberNameText, <<SP>>, v) :
            ti \in TypeInputs, v \in Values}
    \cup {LineOf("constant", ti, ConstantNameText, <<>>, <<>>) : ti \in TypeInputs}
    \cup {LineOf("constant", ti, ConstantNameText, sep, v) :
            ti \in TypeInputs, sep \in {EqTight, EqLoose}, v \in Values \cup {<<>>}}

LineText(i) == TypeText(i) \o <<SP>> \o i.name \o i.sep \o i.val

NoLine ==
    [form |-> "none", elem |-> <<>>, kind |-> "", n |-> 0,
     name |-> <<>>, sep |-> <<>>, val |-> <<>>]
NoResult == [ok |-> FALSE, err |-> "none", input |-> <<>>]

\* the packages and the names of the actions of the derive run
PkgNames == {PkgName, <<"p">>}
ActionNames == {ActionName, <<"A">>}

\* a block of an action file: nothing, or one declaration
BlockTexts == {<<>>, DeclLine \o <<NL>>}
ActionTexts ==
    {g \o Separator \o r \o Separator \o f : g \in BlockTexts, r \in BlockTexts,
                                               f \in BlockTexts}

\* the Actions that parse_action_string produces
ParsedActions ==
    {ActionIn(parse_action_string(p, n, t)) : p \in PkgNames, n \in ActionNames,
                                              t \in ActionTexts}

\* Actions built field by field, whose parts are named freely
PartMessages == {NoMessage, Message(<<"q">>, <<"G">>, <<>>, <<>>)}
BuiltActions ==
    {ActionStruct(p, n, g, r, f) : p \in PkgNames, n \in ActionNames,
        g \in PartMessages, r \in PartMessages, f \in PartMessages}

Actions == ParsedActions \cup BuiltActions

NoAction == ActionStruct(<<>>, <<>>, NoMessage, NoMessage, NoMessage)
NoArtefact == [package |-> <<>>, name |-> <<>>]

\* index lines whose file name is "..", a path with no file stem, and an
\* index line whose file name is an absolute path
NoStemAction == <<"a", "c", "t", "i", "o", "n", "/", ".", ".", "i", "d", "l">>
NoStemSrv == <<"s", "r", "v", "/", ".", ".", "i", "d", "l">>
AbsoluteSrv == <<"s", "r", "v", "/", "/", "x", "/", "A", ".", "i", "d", "l">>

\* the lines of a resource-index file: two definitions of each namespace, a
\* definition whose file is malformed, a line that is no .idl line, a line
\* of an unknown namespace, and the lines above
IndexLines ==
    {<<"m", "s", "g", "/", "A", ".", "i", "d", "l">>,
     <<"m", "s", "g", "/", "B", ".", "i", "d", "l">>,
     <<"s", "r", "v", "/", "A", ".", "i", "d", "l">>,
     <<"s", "r", "v", "/", "B", ".", "i", "d", "l">>,
     <<"a", "c", "t", "i", "o", "n", "/", "A", ".", "i", "d", "l">>,
     <<"a", "c", "t", "i", "o", "n", "/", "B", ".", "i", "d", "l">>,
     <<"m", "s", "g", "/", "B", "a", "d", ".", "i", "d", "l">>,
     <<"m", "s", "g", "/", "A", ".", "m", "s", "g">>,
     <<"f", "o", "o", "/", "A", ".", "i", "d", "l">>,
     NoStemAction, NoStemSrv, AbsoluteSrv}

\* the sequences of at most n elements of S
SeqsUpTo(S, n) == UNION {[1..k -> S] : k \in 0..n}

NoConfig == Config(FALSE, <<>>, {})
NoEnviron == [set |-> FALSE, paths |-> <<>>]

ExcludeSets == {DEFAULT_EXCLUDED_PACKAGES, {}, {<<"p">>}}

\* an index file of a resource directory
IndexFile(pkg_name, ls) == [pkg_name |-> pkg_name, lns |-> ls]

\* small index files: one definition, well-formed or malformed
SmallFiles == {IndexFile(n, <<l>>) : n \in PkgNames, l \in {<<"m", "s", "g", "/", "A", ".", "i", "d", "l">>, <<"m", "s", "g", "/", "B", "a", "d", ".", "i", "d", "l">>}}

\* a resource directory holds no two files of one name
LoadFiles == {IndexFile(n, ls) : n \in PkgNames, ls \in SeqsUpTo(IndexLines, MaxIdl)}
\* the small index files that may stand beside f in one directory
Beside(f) == {h \in SmallFiles : h.pkg_name # f.pkg_name}

LoadDirs ==
    {<<f>> : f \in LoadFiles}
        \cup UNION {{<<f, g>> : g \in Beside(f)} : f \in LoadFiles}
        \cup UNION {{<<g, f>> : g \in Beside(f)} : f \in LoadFiles}

\* an empty index file of a package whose name is no identifier
OddFile == IndexFile(<<"1", "p">>, <<>>)
\* the resource directories of the runs with any compile options
RunDirs ==
    {<<>>, <<IndexFile(<<"p">>, <<<<"m", "s", "g", "/", "A", ".", "i", "d", "l">>>>)>>,
     <<IndexFile(<<"p">>, <<<<"s", "r", "v", "/", "A", ".", "i", "d", "l">>>>),
       IndexFile(PkgName, <<<<"m", "s", "g", "/", "A", ".", "i", "d", "l">>>>)>>,
     <<OddFile>>}

\* an index file with a definition whose parser panics
NoStemFile == IndexFile(<<"p">>, <<NoStemAction>>)

BuildDirs ==
    {<<>>} \cup {<<f>> : f \in SmallFiles}
           \cup UNION {{<<f, g>> : g \in Beside(f)} : f \in SmallFiles}
           \cup {<<OddFile>>} \cup {<<f, OddFile>> : f \in SmallFiles}
           \cup {<<NoStemFile>>} \cup {<<NoStemFile, f>> : f \in Beside(NoStemFile)}

\* the identifiers camel2snake is called on: upper-case and lower-case
\* letters and a digit, and the name of the test of the repository
IdentChars == {"A", "B", "a", "b", "1"}
TestHoge == <<"T", "e", "s", "t", "H", "o", "g", "e">>
Idents == SeqsUpTo(IdentChars, MaxIdent) \cup {TestHoge}

\* the resource-index lines parse_line is called on: a directory part (or
\* none), a name and an ending
LineDirs == {<<"m", "s", "g">>, <<"s", "r", "v">>, <<"a", "c", "t", "i", "o", "n">>, <<"t", "e", "s", "t">>, <<"M", "s", "g">>, <<>>}
LineNames == {<<"T", "e", "s", "t", "H", "o", "g", "e">>, <<"A">>, <<"a", ".", "b">>, <<"s", "u", "b", "/", "A">>, <<".">>, <<>>}
LineEndings == {<<".", "i", "d", "l">>, <<".", "m", "s", "g">>, <<".", "t", "e", "s", "t">>, <<".", "i", "d", "l", "x">>, <<>>}
ResourceLines ==
    {d \o <<"/">> \o n \o x : d \in LineDirs, n \in LineNames, x \in LineEndings}
        \cup {n \o x : n \in LineNames, x \in LineEndings}

\* the package directories load_package_dir is called on: every subdirectory
\* is absent, empty, or holds one or two definitions, a malformed definition
\* or a file of another kind
SubDirs(ns) ==
    {NoDir, Dir(<<>>), Dir(<<<<"A", ".">> \o ns>>),
     Dir(<<<<"B", ".">> \o ns, <<"n", "o", "t", "e", "s", ".", "t", "x", "t">>, <<"A", ".">> \o ns>>),
     Dir(<<<<"B", "a", "d", ".">> \o ns>>), Dir(<<<<"R", "E", "A", "D", "M", "E">>, <<".">> \o ns>>)}
PackageDirs ==
    {[name |-> PkgName, msg |-> m, srv |-> v, action |-> a] :
        m \in SubDirs(NsMsg), v \in SubDirs(NsSrv), a \in SubDirs(NsAction)}

\* the prefixes of the configuration run: p has a malformed definition, a
\* refused index line, a definition whose parser panics or a second copy in
\* the other prefix
BadIndexFile == IndexFile(<<"p">>, <<<<"f", "o", "o", "/", "A", ".", "i", "d", "l">>>>)
GoodFile(n) == IndexFile(n, <<<<"m", "s", "g", "/", "A", ".", "i", "d", "l">>>>)
BadFile(n) == IndexFile(n, <<<<"m", "s", "g", "/", "B", "a", "d", ".", "i", "d", "l">>>>)
ConfigFs ==
    {<<d1, d2>> :
        d1 \in {<<BadFile(<<"p">>), GoodFile(PkgName)>>, <<GoodFile(<<"p">>)>>,
                <<BadIndexFile, GoodFile(PkgName)>>, <<NoStemFile, GoodFile(PkgName)>>},
        d2 \in {<<GoodFile(<<"p">>)>>, <<GoodFile(PkgName)>>}}

\* the configured roots, by their index in fs; a root may be listed twice
PathLists == SeqsUpTo({1, 2}, MaxPaths)
Environs == {NoEnviron, [set |-> TRUE, paths |-> <<1>>]}

-----------------------------------------------------------------------------
(* The dialect run: one interface file is read and parsed as a service or  *)
(* as an action.                                                           *)

DialectIdle == dop = "idle" /\ norm = <<>> /\ blocks = <<>> /\ dres = NoResult
LineIdle == lin = NoLine /\ line = <<>> /\ lop = "idle" /\ lres = NoResult
DeriveIdle == action = NoAction /\ aop = "idle" /\ ares = NoArtefact
CallIdle == arg = <<>> /\ fop = "idle" /\ fn = 0 /\ fres = NoResult
InvokerIdle ==
    /\ tx = None /\ rx = FALSE /\ handle = <<>> /\ channel = <<>>
    /\ received = <<>> /\ taken = <<>> /\ iop = "idle" /\ ires = NoResult
TreeIdle ==
    /\ tree = <<>> /\ tlog = <<>> /\ top = "idle" /\ targ = <<>> /\ tres = <<>>
ExtraIdle == CallIdle /\ InvokerIdle /\ TreeIdle
PackageIdle ==
    /\ fs = <<>>
    /\ environ = NoEnviron
    /\ config = NoConfig
    /\ pop = "idle"
    /\ parg = <<>>
    /\ pres = NoResult

InitDialect ==
    /\ text \in Texts
    /\ DialectIdle
    /\ LineIdle
    /\ DeriveIdle
    /\ PackageIdle
    /\ ExtraIdle

ParseServiceFile ==
    /\ dop = "idle"
    /\ dop' = "service"
    /\ norm' = service_file_text(text)
    /\ blocks' = service_blocks(service_file_text(text))
    /\ dres' = parse_service_file(PkgName, SrvFile, ReadOk(text))
    /\ UNCHANGED <<text, lvars, avars, pvars, xvars>>

ParseActionFile ==
    /\ dop = "idle"
    /\ dop' = "action"
    /\ norm' = fix_newlines(text)
    /\ blocks' = action_blocks(text)
    /\ dres' = parse_action_string(PkgName, ActionName, text)
    /\ UNCHANGED <<text, lvars, avars, pvars, xvars>>

NextDialect == ParseServiceFile \/ ParseActionFile

SpecDialect == InitDialect /\ [][NextDialect]_vars

-----------------------------------------------------------------------------
(* The line run: one declaration line is parsed as a member or a constant. *)

InitLine ==
    /\ lin \in LineInputs
    /\ line = LineText(lin)
    /\ lop = "idle"
    /\ lres = NoResult
    /\ text = <<>>
    /\ DialectIdle
    /\ DeriveIdle
    /\ PackageIdle
    /\ ExtraIdle

MemberDef ==
    /\ lop = "idle"
    /\ lin.form = "member"
    /\ lop' = "member"
    /\ lres' = member_def(line)
    /\ UNCHANGED <<lin, line, text, dvars, avars, pvars, xvars>>

ConstantDef ==
    /\ lop = "idle"
    /\ lin.form = "constant"
    /\ lop' = "constant"
    /\ lres' = constant_def(line)
    /\ UNCHANGED <<lin, line, text, dvars, avars, pvars, xvars>>

NextLine == MemberDef \/ ConstantDef

SpecLine == InitLine /\ [][NextLine]_vars

-----------------------------------------------------------------------------
(* The derive run: one of the three derivations is called on an Action.    *)

InitDerive ==
    /\ action \in Actions
    /\ aop = "idle"
    /\ ares = NoArtefact
    /\ text = <<>>
    /\ DialectIdle
    /\ LineIdle
    /\ PackageIdle
    /\ ExtraIdle

SendGoalSrv ==
    /\ aop = "idle"
    /\ aop' = "send_goal_srv"
    /\ ares' = send_goal_srv(action)
    /\ UNCHANGED <<action, text, dvars, lvars, pvars, xvars>>

GetResultSrv ==
    /\ aop = "idle"
    /\ aop' = "get_result_srv"
    /\ ares' = get_result_srv(action)
    /\ UNCHANGED <<action, text, dvars, lvars, pvars, xvars>>

FeedbackMessageMsg ==
    /\ aop = "idle"
    /\ aop' = "feedback_message_msg"
    /\ ares' = feedback_message_msg(action)
    /\ UNCHANGED <<action, text, dvars, lvars, pvars, xvars>>

NextDerive == SendGoalSrv \/ GetResultSrv \/ FeedbackMessageMsg

SpecDerive == InitDerive /\ [][NextDerive]_vars

-----------------------------------------------------------------------------
(* The package run: a prefix is loaded, or a CompileConfig is built / run.  *)

OthersIdle == text = <<>> /\ DialectIdle /\ LineIdle /\ DeriveIdle /\ ExtraIdle

\* one prefix with one or two index files, the first with any lines
InitLoad ==
    /\ fs \in {<<d>> : d \in LoadDirs}
    /\ environ = NoEnviron
    /\ config \in {Config(FALSE, <<1>>, x) : x \in ExcludeSets}
    /\ pop = "idle"
    /\ parg = <<>>
    /\ pres = NoResult
    /\ OthersIdle

\* AmentPrefix::load on the prefix of the configuration
Load ==
    /\ pop = "idle"
    /\ pop' = "load"
    /\ pres' = load(fs[config.ament_prefix_paths[1]], config.exclude_packages)
    /\ UNCHANGED <<fs, environ, config, parg, text, dvars, lvars, avars, xvars>>

NextLoad == Load

SpecLoad == InitLoad /\ [][NextLoad]_vars

\* two prefixes with small index files, listed in any order and number
InitBuild ==
    /\ \/ /\ fs \in {<<d1, d2>> : d1 \in BuildDirs, d2 \in BuildDirs}
          /\ config \in {Config(e, ps, x) : e \in BOOLEAN, ps \in PathLists, x \in ExcludeSets}
       \/ /\ fs \in {<<d1, d2>> : d1 \in RunDirs, d2 \in RunDirs}
          /\ config \in {compile_ffi(set_codegen_single_file(set_codegen(Config(e, ps, {}), c), s), b) :
                            e \in BOOLEAN, ps \in PathLists, c \in BOOLEAN, s \in BOOLEAN,
                            b \in BOOLEAN}
    /\ environ \in Environs
    /\ pop = "idle"
    /\ parg = <<>>
    /\ pres = NoResult
    /\ OthersIdle

Build ==
    /\ pop \in {"idle"} \cup BuilderCalls
    /\ pop' = "build"
    /\ pres' = build(config, environ, fs)
    /\ UNCHANGED <<fs, environ, config, parg, text, dvars, lvars, avars, xvars>>

Run ==
    /\ pop \in {"idle"} \cup BuilderCalls
    /\ pop' = "run"
    /\ pres' = run(config, environ, fs)
    /\ UNCHANGED <<fs, environ, config, parg, text, dvars, lvars, avars, xvars>>

NextBuild == Build \/ Run

SpecBuild == InitBuild /\ [][NextBuild]_vars

\* a CompileConfig is made, changed by its builder methods, and built
InitConfig ==
    /\ fs \in ConfigFs
    /\ environ \in Environs
    /\ config = NoConfig
    /\ pop = "idle"
    /\ parg = <<>>
    /\ pres = NoResult
    /\ OthersIdle

Unbuilt == <<fs, environ, pres, text, dvars, lvars, avars, xvars>>

New ==
    /\ pop = "idle"
    /\ pop' = "new"
    /\ parg' = <<>>
    /\ config' = new
    /\ UNCHANGED Unbuilt

SearchEnv ==
    /\ pop \in BuilderCalls
    /\ \E yes \in BOOLEAN :
          /\ parg' = yes
          /\ config' = set_search_env(config, yes)
    /\ pop' = "search_env"
    /\ UNCHANGED Unbuilt

AmentPrefixPath ==
    /\ pop \in BuilderCalls
    /\ Len(config.ament_prefix_paths) < MaxPaths
    /\ \E dir \in DOMAIN fs :
          /\ parg' = dir
          /\ config' = ament_prefix_path(config, dir)
    /\ pop' = "ament_prefix_path"
    /\ UNCHANGED Unbuilt

AmentPrefixPaths ==
    /\ pop \in BuilderCalls
    /\ \E dirs \in SeqsUpTo(DOMAIN fs, MaxPaths) :
          /\ Len(config.ament_prefix_paths) + Len(dirs) <= MaxPaths
          /\ parg' = dirs
          /\ config' = add_ament_prefix_paths(config, dirs)
    /\ pop' = "ament_prefix_paths"
    /\ UNCHANGED Unbuilt

ClearExcludePackages ==
    /\ pop \in BuilderCalls
    /\ pop' = "clear_exclude_packages"
    /\ parg' = <<>>
    /\ config' = clear_exclude_packages(config)
    /\ UNCHANGED Unbuilt

ExcludePackage ==
    /\ pop \in BuilderCalls
    /\ \E package \in PkgNames :
          /\ parg' = package
          /\ config' = exclude_package(config, package)
    /\ pop' = "exclude_package"
    /\ UNCHANGED Unbuilt

ExcludePackages ==
    /\ pop \in BuilderCalls
    /\ \E packages \in SUBSET PkgNames :
          /\ parg' = packages
          /\ config' = add_exclude_packages(config, packages)
    /\ pop' = "exclude_packages"
    /\ UNCHANGED Unbuilt

NextConfig ==
    \/ New \/ SearchEnv \/ AmentPrefixPath \/ AmentPrefixPaths \/ ClearExcludePackages
    \/ ExcludePackage \/ ExcludePackages \/ Build

SpecConfig == InitConfig /\ [][NextConfig]_vars

\* a CompileConfig of the older compile module is made, changed by its
\* builder methods, and run
InitCompile ==
    /\ fs \in {<<d1, d2>> : d1 \in RunDirs, d2 \in RunDirs}
    /\ environ \in Environs
    /\ config = NoConfig
    /\ pop = "idle"
    /\ parg = <<>>
    /\ pres = NoResult
    /\ OthersIdle

Codegen ==
    /\ pop \in BuilderCalls
    /\ \E yes \in BOOLEAN :
          /\ parg' = yes
          /\ config' = set_codegen(config, yes)
    /\ pop' = "codegen"
    /\ UNCHANGED Unbuilt

CodegenSingleFile ==
    /\ pop \in BuilderCalls
    /\ \E yes \in BOOLEAN :
          /\ parg' = yes
          /\ config' = set_codegen_single_file(config, yes)
    /\ pop' = "codegen_single_file"
    /\ UNCHANGED Unbuilt

CompileFfi ==
    /\ pop \in BuilderCalls
    /\ \E cc \in BOOLEAN :
          /\ parg' = cc
          /\ config' = compile_ffi(config, cc)
    /\ pop' = "compile_ffi"
    /\ UNCHANGED Unbuilt

NextCompile ==
    \/ New \/ SearchEnv \/ AmentPrefixPath \/ Codegen \/ CodegenSingleFile \/ CompileFfi
    \/ Run

SpecCompile == InitCompile /\ [][NextCompile]_vars

\* a package directory of a workspace is loaded
InitPackageDir ==
    /\ fs \in PackageDirs
    /\ environ = NoEnviron
    /\ config = NoConfig
    /\ pop = "idle"
    /\ parg = <<>>
    /\ pres = NoResult
    /\ OthersIdle

LoadPackageDir ==
    /\ pop = "idle"
    /\ pop' = "load_package_dir"
    /\ pres' = load_package_dir(fs)
    /\ UNCHANGED <<fs, environ, config, parg, text, dvars, lvars, avars, xvars>>

NextPackageDir == LoadPackageDir

SpecPackageDir == InitPackageDir /\ [][NextPackageDir]_vars

-----------------------------------------------------------------------------
(* The call run: a function of one text is called, possibly again.         *)

CallOk(out) == [ok |-> TRUE, err |-> "", input |-> <<>>, out |-> out]

AllIdleCore ==
    /\ text = <<>> /\ DialectIdle /\ LineIdle /\ DeriveIdle /\ PackageIdle
AllIdle == AllIdleCore /\ InvokerIdle /\ TreeIdle

InitSnake ==
    /\ arg \in Idents
    /\ fop = "idle"
    /\ fn = 0
    /\ fres = NoResult
    /\ AllIdle

Camel2Snake ==
    /\ fop \in {"idle", "camel2snake"}
    /\ fn < MaxCalls
    /\ fop' = "camel2snake"
    /\ fn' = fn + 1
    /\ fres' = CallOk(camel2snake(arg))
    /\ UNCHANGED <<arg, text, dvars, lvars, avars, pvars, yvars>>

NextSnake == Camel2Snake

SpecSnake == InitSnake /\ [][NextSnake]_vars

InitParseLine ==
    /\ arg \in ResourceLines
    /\ fop = "idle"
    /\ fn = 0
    /\ fres = NoResult
    /\ AllIdle

ParseLine ==
    /\ fop = "idle"
    /\ fop' = "parse_line"
    /\ fn' = 1
    /\ fres' = parse_line(arg)
    /\ UNCHANGED <<arg, text, dvars, lvars, avars, pvars, yvars>>

NextParseLine == ParseLine

SpecParseLine == InitParseLine /\ [][NextParseLine]_vars

-----------------------------------------------------------------------------
(* The invoker run: a ClientInvoker between a client handle and a channel. *)

\* bounds of the invoker run
MaxResponses == 4
MaxQueue == 2

\* the failures of take_response: the one invoke swallows and another one
TakeErrors == {"RclClientTakeFailed", "RclBadAlloc"}

WorkerMessage(res) == [message |-> res]

TakeOk(v) == [ok |-> TRUE, err |-> "", v |-> v]
TakeErr(e) == [ok |-> FALSE, err |-> e, v |-> 0]

\* self.handle.take_response::<Srv>(): the oldest ready response, or a failure
take_response(h) ==
    (IF h = <<>> THEN {} ELSE {TakeOk(Head(h))}) \cup {TakeErr(e) : e \in TakeErrors}

\* tx.try_send(m) on a bounded channel whose receiver is alive or gone
try_send(ch, alive, m) ==
    IF ~alive THEN [res |-> "disconnected", channel |-> ch]
    ELSE IF Len(ch) >= MaxQueue THEN [res |-> "full", channel |-> ch]
    ELSE [res |-> "ok", channel |-> Append(ch, m)]

InvokeOk == [ok |-> TRUE, err |-> ""]
InvokeErr(e) == [ok |-> FALSE, err |-> e]

\* self.tx.take()
stop_keeps(t) == t
stop(t) == None

\* the arm of invoke for a failed take_response
take_failed_swallowed(e) == InvokeOk
take_failed(e) == IF e = "RclClientTakeFailed" THEN InvokeOk ELSE InvokeErr(e)

\* the match of invoke on what try_send returned
deliver_quiet(t, r) ==
    IF r = "disconnected" THEN [tx |-> stop(t), ret |-> InvokeOk] ELSE [tx |-> t, ret |-> InvokeOk]
deliver(t, r) ==
    CASE r = "ok" -> [tx |-> t, ret |-> InvokeOk]
      [] r = "disconnected" -> [tx |-> stop(t), ret |-> InvokeOk]
      [] OTHER -> [tx |-> t, ret |-> InvokeErr("MessageQueueIsFull")]

\* what an invoke did: the outcome of take_response ("none" when it was not
\* called), the response taken, the outcome of try_send, the value returned
Invoked(take, took, send, ret) == [take |-> take, took |-> took, send |-> send, ret |-> ret]

\* ClientInvoker::new_from_target on a fresh Client
OthersIdleButInvoker == AllIdleCore /\ CallIdle /\ TreeIdle

InitInvoker ==
    /\ tx = Some(<<"tx">>)
    /\ rx = TRUE
    /\ handle = <<>>
    /\ channel = <<>>
    /\ received = <<>>
    /\ taken = <<>>
    /\ iop = "new"
    /\ ires = NoResult
    /\ OthersIdleButInvoker

Uninvoked == <<text, dvars, lvars, avars, pvars, cvars, tvars>>

\* the service answers: one more response is ready in the client handle
Respond ==
    /\ iop # "idle"
    /\ Len(taken) + Len(handle) < MaxResponses
    /\ handle' = Append(handle, Len(taken) + Len(handle) + 1)
    /\ iop' = "respond"
    /\ UNCHANGED <<tx, rx, channel, received, taken, ires, Uninvoked>>

\* the receiving end takes the oldest message off the channel
Recv ==
    /\ iop # "idle"
    /\ rx
    /\ channel # <<>>
    /\ received' = Append(received, Head(channel))
    /\ channel' = Tail(channel)
    /\ iop' = "recv"
    /\ UNCHANGED <<tx, rx, handle, taken, ires, Uninvoked>>

\* the Client is dropped, and the receiver and what it held with it
DropRx ==
    /\ iop # "idle"
    /\ rx
    /\ rx' = FALSE
    /\ channel' = <<>>
    /\ iop' = "drop"
    /\ UNCHANGED <<tx, handle, received, taken, ires, Uninvoked>>

InvokeStopped ==
    /\ ~tx.some
    /\ ires' = Invoked("none", None, "none", InvokeOk)
    /\ UNCHANGED <<tx, handle, channel, taken>>

InvokeTakeFailed(o) ==
    /\ tx.some
    /\ ~o.ok
    /\ ires' = Invoked(o.err, None, "none", take_failed(o.err))
    /\ UNCHANGED <<tx, handle, channel, taken>>

InvokeTaken(o, s) ==
    /\ tx.some
    /\ o.ok
    /\ handle' = Tail(handle)
    /\ channel' = s.channel
    /\ tx' = deliver(tx, s.res).tx
    /\ taken' = Append(taken, [v |-> o.v, send |-> s.res])
    /\ ires' = Invoked("ok", Some(o.v), s.res, deliver(tx, s.res).ret)

Invoke ==
    /\ iop # "idle"
    /\ \/ InvokeStopped
       \/ \E o \in take_response(handle) :
              \/ InvokeTakeFailed(o)
              \/ InvokeTaken(o, try_send(channel, rx, WorkerMessage(o.v)))
    /\ iop' = "invoke"
    /\ UNCHANGED <<rx, received, Uninvoked>>

NextInvoker == Respond \/ Recv \/ DropRx \/ Invoke

SpecInvoker == InitInvoker /\ [][NextInvoker]_vars

-----------------------------------------------------------------------------
(* The tree run: contexts are set on message paths of an AmentTree and     *)
(* looked up (msg_path.rs).                                                *)

\* bound of the tree run: the number of set calls
MaxSets == 3

\* enum MsgPath: the variant, the package and the message name it carries
MsgPath(tag, pkg, name) == [tag |-> tag, pkg |-> pkg, name |-> name]
Wild == MsgPath("Wild", <<>>, <<>>)

EmptyMap == [k \in {} |-> 0]
\* HashMap::insert
insert(m, k, v) == [x \in DOMAIN m \cup {k} |-> IF x = k THEN v ELSE m[x]]

MsgTreeDefault == [wildcard |-> None, messages |-> EmptyMap]
PackageTreeDefault ==
    [wildcard |-> None, msg |-> MsgTreeDefault, srv |-> MsgTreeDefault,
     action |-> MsgTreeDefault]
AmentTreeDefault == [wildcard |-> None, packages |-> EmptyMap]

\* self.packages.entry(pkg).or_insert_with(PackageTree::default)
entry_fresh(t, pkg) == PackageTreeDefault
entry(t, pkg) ==
    IF pkg \in DOMAIN t.packages THEN t.packages[pkg] ELSE PackageTreeDefault

\* the PackageTree of path.pkg after the assignment of set
set_in_package(pt, path, context) ==
    CASE path.tag = "PkgWild" -> [pt EXCEPT !.wildcard = Some(context)]
      [] path.tag = "PkgMsgWild" -> [pt EXCEPT !.msg.wildcard = Some(context)]
      [] path.tag = "PkgMsgMsg" ->
            [pt EXCEPT !.msg.messages = insert(@, path.name, context)]
      [] path.tag = "PkgSrvWild" -> [pt EXCEPT !.srv.wildcard = Some(context)]
      [] path.tag = "PkgSrvMsg" ->
            [pt EXCEPT !.srv.messages = insert(@, path.name, context)]
      [] path.tag = "PkgActionWild" -> [pt EXCEPT !.action.wildcard = Some(context)]
      [] path.tag = "PkgActionMsg" ->
            [pt EXCEPT !.action.messages = insert(@, path.name, context)]

\* AmentTree::set
set_context(t, path, context) ==
    IF path.tag = "Wild" THEN [t EXCEPT !.wildcard = Some(context)]
    ELSE [t EXCEPT !.packages =
              insert(@, path.pkg, set_in_package(entry(t, path.pkg), path, context))]

\* Option::as_ref chained: nothing or the one context
chained(opt) == IF opt.some THEN <<opt.v>> ELSE <<>>

msg_tree_of(pkg_tree, kind) ==
    CASE kind = "Msg" -> pkg_tree.msg
      [] kind = "Srv" -> pkg_tree.srv
      [] kind = "Action" -> pkg_tree.action

\* chain!(opt3, opt4) of get
in_msg_tree(mt, msg) ==
    chained(mt.wildcard)
    \o (IF msg \in DOMAIN mt.messages THEN <<mt.messages[msg]>> ELSE <<>>)

\* AmentTree::get
get_contexts(t, pkg, kind, msg) ==
    chained(t.wildcard)
    \o (IF pkg \in DOMAIN t.packages
        THEN chained(t.packages[pkg].wildcard)
             \o in_msg_tree(msg_tree_of(t.packages[pkg], kind), msg)
        ELSE <<>>)

\* the packages, kinds and message names of the tree run
TreePkgs == {<<"a">>, <<"b">>}
MsgKinds == {"Msg", "Srv", "Action"}
TreeMsgs == {<<"M">>, <<"N">>}
\* the variant for every message of a kind and the one for a named message
KindWild(kind) ==
    CASE kind = "Msg" -> "PkgMsgWild" [] kind = "Srv" -> "PkgSrvWild"
      [] kind = "Action" -> "PkgActionWild"
KindMsg(kind) ==
    CASE kind = "Msg" -> "PkgMsgMsg" [] kind = "Srv" -> "PkgSrvMsg"
      [] kind = "Action" -> "PkgActionMsg"
TreePaths ==
    {Wild}
    \cup {MsgPath("PkgWild", p, <<>>) : p \in TreePkgs}
    \cup {MsgPath(KindWild(k), p, <<>>) : p \in TreePkgs, k \in MsgKinds}
    \cup UNION {{MsgPath(KindMsg(k), p, m) : p \in TreePkgs, k \in MsgKinds} :
                m \in TreeMsgs}
\* the lookups made
Lookups == {<<(<<"a">>), "Srv", (<<"M">>)>>, <<(<<"b">>), "Msg", (<<"N">>)>>}

\* AmentTree::default
InitTree ==
    /\ tree = AmentTreeDefault
    /\ tlog = <<>>
    /\ top = "default"
    /\ targ = <<>>
    /\ tres = <<>>
    /\ AllIdleCore /\ CallIdle /\ InvokerIdle

Untreed == <<text, dvars, lvars, avars, pvars, cvars, ivars>>

\* set is called with the next context
Set ==
    /\ top # "idle"
    /\ Len(tlog) < MaxSets
    /\ \E path \in TreePaths :
           /\ tree' = set_context(tree, path, Len(tlog) + 1)
           /\ tlog' = Append(tlog, [path |-> path, context |-> Len(tlog) + 1])
    /\ top' = "set"
    /\ targ' = <<>>
    /\ tres' = <<>>
    /\ UNCHANGED Untreed

Get ==
    /\ top # "idle"
    /\ \E a \in Lookups :
           /\ targ' = a
           /\ tres' = get_contexts(tree, a[1], a[2], a[3])
    /\ top' = "get"
    /\ UNCHANGED <<tree, tlog, Untreed>>

NextTree == Set \/ Get

SpecTree == InitTree /\ [][NextTree]_vars

-----------------------------------------------------------------------------
(* MsgPath::from_str (msg_path.rs), called on one text.                    *)

\* str::split(c): the pieces between the occurrences of c, at least one
RECURSIVE split(_, _)
split(t, c) ==
    IF find(t, <<c>>) = 0 THEN <<t>>
    ELSE <<Take(t, find(t, <<c>>) - 1)>> \o split(Drop(t, find(t, <<c>>)), c)

is_ascii_alphanumeric(c) == c \in Lower \cup Upper \cup DigitSet

PathOk(path) == [ok |-> TRUE, err |-> "", input |-> <<>>, path |-> path]
PathErr(t) == [ok |-> FALSE, err |-> "invalid message path", input |-> t, path |-> Wild]

\* the three matches on the tokens; "Err" stands for the early return
pkg_token(tok) ==
    IF tok = <<"*">> THEN "Wildcard"
    ELSE IF \A i \in DOMAIN tok : is_ascii_alphanumeric(tok[i]) THEN "Name"
    ELSE "Err"
kind_token(tok) ==
    CASE tok = <<"*">> -> "Wildcard"
      [] tok = <<"m", "s", "g">> -> "Msg"
      [] tok = <<"s", "r", "v">> -> "Srv"
      [] tok = <<"a", "c", "t", "i", "o", "n">> -> "Action"
      [] OTHER -> "Err"
msg_token(tok) ==
    IF tok = <<"*">> THEN "Wildcard"
    ELSE IF \A i \in DOMAIN tok : is_ascii_alphanumeric(tok[i]) \/ tok[i] = "_" THEN "Name"
    ELSE "Err"

\* the final match on (pkg, kind, msg)
path_of(t, p, k, m, pkg, msg) ==
    CASE p = "Wildcard" /\ k = "Wildcard" /\ m = "Wildcard" -> PathOk(Wild)
      [] p = "Name" /\ k = "Wildcard" /\ m = "Wildcard" -> PathOk(MsgPath("PkgWild", pkg, <<>>))
      [] p = "Name" /\ k = "Msg" /\ m = "Wildcard" -> PathOk(MsgPath("PkgMsgWild", pkg, <<>>))
      [] p = "Name" /\ k = "Msg" /\ m = "Name" -> PathOk(MsgPath("PkgMsgMsg", pkg, msg))
      [] p = "Name" /\ k = "Srv" /\ m = "Wildcard" -> PathOk(MsgPath("PkgSrvWild", pkg, <<>>))
      [] p = "Name" /\ k = "Srv" /\ m = "Name" -> PathOk(MsgPath("PkgSrvMsg", pkg, msg))
      [] p = "Name" /\ k = "Action" /\ m = "Wildcard" -> PathOk(MsgPath("PkgActionWild", pkg, <<>>))
      [] p = "Name" /\ k = "Action" /\ m = "Name" -> PathOk(MsgPath("PkgActionMsg", pkg, msg))
      [] OTHER -> PathErr(t)

from_tokens(t, tokens) ==
    IF Len(tokens) # 3 THEN PathErr(t)
    ELSE IF pkg_token(tokens[1]) = "Err" THEN PathErr(t)
    ELSE IF kind_token(tokens[2]) = "Err" THEN PathErr(t)
    ELSE IF msg_token(tokens[3]) = "Err" THEN PathErr(t)
    ELSE path_of(t, pkg_token(tokens[1]), kind_token(tokens[2]), msg_token(tokens[3]),
                 tokens[1], tokens[3])

\* MsgPath::from_str
from_str(t) == from_tokens(t, split(t, "/"))

\* the texts from_str is called on: three tokens, and fewer and more
PkgToks == {<<>>, <<"*">>, <<"p">>, <<"s", "t", "d", "_", "m", "s", "g", "s">>, <<"p", "-">>}
KindToks == {<<>>, <<"*">>, <<"m", "s", "g">>, <<"s", "r", "v">>, <<"a", "c", "t", "i", "o", "n">>, <<"f", "o", "o">>}
MsgToks == {<<>>, <<"*">>, <<"M">>, <<"S", "t", "r", "i", "n", "g">>, <<"M", "_", "1">>, <<"M", "-">>}
PathTexts ==
    UNION {{p \o <<"/">> \o k \o <<"/">> \o m : p \in PkgToks, k \in KindToks} :
              m \in MsgToks}
    \cup {<<>>, <<"*">>, <<"p">>, <<"p", "/", "m", "s", "g">>, <<"p", "/", "m", "s", "g", "/", "M", "/", "x">>, <<"*", "/", "*">>}

InitFromStr ==
    /\ arg \in PathTexts
    /\ fop = "idle"
    /\ fn = 0
    /\ fres = NoResult
    /\ AllIdle

FromStr ==
    /\ fop = "idle"
    /\ arg \in PathTexts
    /\ fop' = "from_str"
    /\ fn' = 1
    /\ fres' = from_str(arg)
    /\ UNCHANGED <<arg, text, dvars, lvars, avars, pvars, yvars>>

NextFromStr == FromStr

SpecFromStr == InitFromStr /\ [][NextFromStr]_vars

Init ==
    \/ InitDialect \/ InitLine \/ InitDerive \/ InitLoad \/ InitBuild
    \/ InitSnake \/ InitParseLine \/ InitPackageDir \/ InitConfig \/ InitCompile
    \/ InitInvoker \/ InitTree \/ InitFromStr
Next ==
    \/ NextDialect \/ NextLine \/ NextDerive \/ NextLoad \/ NextBuild
    \/ NextSnake \/ NextParseLine \/ NextPackageDir \/ NextConfig \/ NextCompile
    \/ NextInvoker \/ NextTree \/ NextFromStr
Spec == Init /\ [][Next]_vars

-----------------------------------------------------------------------------
(* Properties of the dialect run.                                          *)

\* the number of entries of the sequence ls that equal x
CountEq(ls, x) == Cardinality({i \in DOMAIN ls : ls[i] = x})

\* the number of lines of t that consist solely of three dashes
SeparatorLines(t) == CountEq(lines(t), SepLine)

\* s is empty or ends at the end of a line
AtLineEnd(s) == s = <<>> \/ s[Len(s)] = NL

\* the last entry of a sequence, <<>> when there is none
Final(ls) == IF ls = <<>> THEN <<>> ELSE ls[Len(ls)]

\* t holds n separator lines, the last of them being its last line, and no
\* line ending follows it
EndsWithSeparator(t, n) ==
    /\ ~AtLineEnd(t)
    /\ Final(lines(t)) = SepLine
    /\ SeparatorLines(t) = n

\* C1: parse_service_string succeeds only on a text with exactly one '---'
\* separator line; a text with zero, or with two or more, separator lines is
\* rejected with the structural error and no Service is returned.
C1_ServiceOneSeparator ==
    dop = "service" =>
        /\ dres.ok => SeparatorLines(norm) = 1
        /\ SeparatorLines(norm) # 1 =>
               ~dres.ok /\ dres.err = "InvalidServiceSpecification"

\* C2: parse_action_string succeeds only on a text with exactly two '---'
\* separator lines; a text with zero, one, or three or more separator lines
\* is rejected with the structural error and no Action is returned.
C2_ActionTwoSeparators ==
    dop = "action" =>
        /\ dres.ok => SeparatorLines(norm) = 2
        /\ SeparatorLines(norm) # 2 =>
               ~dres.ok /\ dres.err = "InvalidActionSpecification"

\* C3: a section separator is recognised only where a whole line is '---':
\* every section that a separator closes ends at the end of a line, so a
\* comment line or a longer dash run ending in '---' never splits the text.
C3_SeparatorIsWholeLine ==
    dop # "idle" =>
        \A i \in 1..(Len(blocks) - 1) : AtLineEnd(blocks[i])

\* C4: in every dialect the text that is split into sections and lines has
\* only line feeds as line endings and ends with a line feed; a service or
\* action text whose last line is the separator '---' without a line feed
\* after it is split with an empty final section; and fix_newlines applied
\* twice gives the text that fix_newlines gives once.
C4_NewlinesNormalised ==
    dop # "idle" =>
        /\ CountEq(norm, CR) = 0
        /\ norm # <<>> /\ AtLineEnd(norm)
        /\ EndsWithSeparator(text, IF dop = "service" THEN 1 ELSE 2) =>
               blocks # <<>> /\ Final(blocks) = <<>>
        /\ fix_newlines(fix_newlines(text)) = fix_newlines(text)

-----------------------------------------------------------------------------
(* Properties of the line run.                                             *)

\* the integer types: keyword, least and greatest value, and the values one
\* below and one above them
IntBounds ==
    {[tok |-> <<"i", "n", "t", "8">>, tag |-> "I8",
      min |-> <<"-", "1", "2", "8">>,
      max |-> <<"1", "2", "7">>,
      below |-> <<"-", "1", "2", "9">>,
      above |-> <<"1", "2", "8">>],
     [tok |-> <<"i", "n", "t", "1", "6">>, tag |-> "I16",
      min |-> <<"-", "3", "2", "7", "6", "8">>,
      max |-> <<"3", "2", "7", "6", "7">>,
      below |-> <<"-", "3", "2", "7", "6", "9">>,
      above |-> <<"3", "2", "7", "6", "8">>],
     [tok |-> <<"i", "n", "t", "3", "2">>, tag |-> "I32",
      min |-> <<"-", "2", "1", "4", "7", "4", "8", "3", "6", "4", "8">>,
      max |-> <<"2", "1", "4", "7", "4", "8", "3", "6", "4", "7">>,
      below |-> <<"-", "2", "1", "4", "7", "4", "8", "3", "6", "4", "9">>,
      above |-> <<"2", "1", "4", "7", "4", "8", "3", "6", "4", "8">>],
     [tok |-> <<"i", "n", "t", "6", "4">>, tag |-> "I64",
      min |-> <<"-", "9", "2", "2", "3", "3", "7", "2", "0", "3", "6", "8", "5", "4", "7", "7", "5", "8", "0", "8">>,
      max |-> <<"9", "2", "2", "3", "3", "7", "2", "0", "3", "6", "8", "5", "4", "7", "7", "5", "8", "0", "7">>,
      below |-> <<"-", "9", "2", "2", "3", "3", "7", "2", "0", "3", "6", "8", "5", "4", "7", "7", "5", "8", "0", "9">>,
      above |-> <<"9", "2", "2", "3", "3", "7", "2", "0", "3", "6", "8", "5", "4", "7", "7", "5", "8", "0", "8">>],
     [tok |-> <<"u", "i", "n", "t", "8">>, tag |-> "U8",
      min |-> <<"0">>,
      max |-> <<"2", "5", "5">>,
      below |-> <<"-", "1">>,
      above |-> <<"2", "5", "6">>],
     [tok |-> <<"u", "i", "n", "t", "1", "6">>, tag |-> "U16",
      min |-> <<"0">>,
      max |-> <<"6", "5", "5", "3", "5">>,
      below |-> <<"-", "1">>,
      above |-> <<"6", "5", "5", "3", "6">>],
     [tok |-> <<"u", "i", "n", "t", "3", "2">>, tag |-> "U32",
      min |-> <<"0">>,
      max |-> <<"4", "2", "9", "4", "9", "6", "7", "2", "9", "5">>,
      below |-> <<"-", "1">>,
      above |-> <<"4", "2", "9", "4", "9", "6", "7", "2", "9", "6">>],
     [tok |-> <<"u", "i", "n", "t", "6", "4">>, tag |-> "U64",
      min |-> <<"0">>,
      max |-> <<"1", "8", "4", "4", "6", "7", "4", "4", "0", "7", "3", "7", "0", "9", "5", "5", "1", "6", "1", "5">>,
      below |-> <<"-", "1">>,
      above |-> <<"1", "8", "4", "4", "6", "7", "4", "4", "0", "7", "3", "7", "0", "9", "5", "5", "1", "6", "1", "6">>]}

\* the type a type text of the model declares
ElemType(e) ==
    CASE e = KwString -> GenericString("String", 0)
      [] e = KwWString -> GenericString("WString", 0)
      [] e = TokFoo -> NamedType(TokFoo)
      [] e = TokPkgFoo -> NamespacedType(TokPkgFoo)
      [] OTHER -> BasicType((CHOOSE b \in IntBounds : b.tok = e).tag)

DeclaredType(i) ==
    CASE i.kind = "scalar" -> NestableTypeOf(ElemType(i.elem))
      [] i.kind = "seq" -> Sequence(ElemType(i.elem))
      [] i.kind = "array" -> Array(ElemType(i.elem), i.n)
      [] OTHER -> BoundedSequence(ElemType(i.elem), i.n)

\* the value list of an accepted line: a member's default, a constant's value
Parsed(r, form) == IF form = "member" THEN r.default.v ELSE r.value

\* the place of an integer literal of the model in their ascending order
Pos(v) == CHOOSE i \in DOMAIN IntLine : IntLine[i] = v

\* v is an integer literal within the range of the integer type e
ValidInt(e, v) ==
    /\ v \in IntValues
    /\ \E b \in IntBounds :
          b.tok = e /\ Pos(b.min) <= Pos(v) /\ Pos(v) <= Pos(b.max)

\* v is a quoted string and e a string type
ValidString(e, v) == e \in {KwString, KwWString} /\ v = StrValue

\* v is a list literal of k elements of the element type e
ListOf(e, v, k) ==
    \/ e = TokInt32 /\ v = IntList(k)
    \/ e \in {KwString, KwWString} /\ v = StrList(k)

\* the elements of that list literal, in source order
Elements(e, k) ==
    IF e = TokInt32 THEN [i \in 1..k |-> Dec(i)] ELSE [i \in 1..k |-> <<Letters[i]>>]

\* the arity rule of a container kind of size or capacity n
Fits(kind, n, k) ==
    CASE kind = "array" -> k = n
      [] kind = "bounded" -> k <= n
      [] OTHER -> TRUE

\* C5: for every integer type a member default or constant value equal to the
\* type's minimum or maximum is accepted, and a value one below the minimum
\* or one above the maximum is rejected.
C5_IntegerBounds ==
    lop # "idle" /\ lin.kind = "scalar" /\ lin.val # <<>> =>
        \A b \in IntBounds :
            lin.elem = b.tok =>
                /\ lin.val \in {b.min, b.max} =>
                       lres.ok /\ Parsed(lres, lin.form) = <<lin.val>>
                /\ lin.val \in {b.below, b.above} => ~lres.ok

\* the least 64-bit value is accepted as the default of an int64 member
C5_Witness ==
    /\ lop = "member"
    /\ lin.elem = KwInt \o W64
    /\ lin.val = IntLine[2]
    /\ lres.ok
    /\ lres.default = Some(<<IntLine[2]>>)

\* C6: validate_default accepts the default of an Array of size N only with
\* exactly N elements, of a BoundedSequence of capacity N only with at most N
\* elements, of a Sequence with any number of elements, and returns the
\* element literals in source order, as many as the literal holds.
C6_DefaultArity ==
    lop = "member" /\ lin.kind # "scalar" =>
        \A k \in 0..MaxElems :
            ListOf(lin.elem, lin.val, k) =>
                /\ lres.ok = Fits(lin.kind, lin.n, k)
                /\ lres.ok => lres.default = Some(Elements(lin.elem, k))

\* a bounded sequence of the greatest capacity of the model is given one
\* element too many and is rejected
C6_Witness ==
    /\ lop = "member"
    /\ lin.elem = TokInt32
    /\ lin.kind = "bounded"
    /\ lin.n = MaxSize
    /\ lin.val = IntList(MaxSize + 1)
    /\ ~lres.ok

\* C7: a constant whose type is a fixed-size array of a primitive type, string
\* and wide string included, is accepted only when its value, a list of one
\* or more elements, has exactly as many elements as the array.
C7_ConstantArity ==
    lop = "constant" /\ lin.kind = "array" /\ lin.sep # <<>> =>
        \A k \in 1..MaxElems :
            ListOf(lin.elem, lin.val, k) /\ lres.ok => k = lin.n

\* C8: a member line that supplies a default for a named or namespaced type,
\* alone or as the element type of an Array, Sequence or BoundedSequence, is
\* rejected with the invalid-default error; every Member returned with such a
\* type has no default.
C8_NoDefaultForNamedTypes ==
    lop = "member" =>
        /\ lin.elem \in {TokFoo, TokPkgFoo} /\ lin.val # <<>> =>
               ~lres.ok /\ lres.err = "InvalidDefaultError"
        /\ lres.ok /\ lres.type.vt.k \in {"NamedType", "NamespacedType"} =>
               lres.default = None

\* a list default for a bounded sequence of a namespaced type is refused
C8_Witness ==
    /\ lop = "member"
    /\ lin.elem = TokPkgFoo
    /\ lin.kind = "bounded"
    /\ lin.val = IntList(1)
    /\ lres.err = "InvalidDefaultError"

\* C9: member_def on '<type> <name>' returns the member of that name and type
\* without a default; on '<type> <name> <value>' with a valid scalar literal
\* it returns the same name and type with the one-element default holding the
\* literal; a default never changes the parsed name or type.
C9_MemberDef ==
    lop = "member" =>
        /\ lin.val = <<>> => lres = MemberOk(lin.name, DeclaredType(lin), None)
        /\ lin.kind = "scalar" /\ ValidInt(lin.elem, lin.val) =>
               lres = MemberOk(lin.name, DeclaredType(lin), Some(<<lin.val>>))
        /\ lin.kind = "scalar" /\ ValidString(lin.elem, lin.val) =>
               lres.ok /\ lres.default.some /\ Len(lres.default.v) = 1
        /\ lres.ok => lres.name = lin.name /\ lres.type = DeclaredType(lin)

\* 'int32 aaa 30' is the member aaa of type int32 with default ["30"]
C9_Witness ==
    /\ lop = "member"
    /\ line = TokInt32 \o <<SP>> \o MemberNameText \o <<SP, "3", "0">>
    /\ lres = MemberOk(MemberNameText, NestableTypeOf(BasicType("I32")),
                       Some(<<(<<"3", "0">>)>>))

\* C10: constant_def on '<type> <NAME>=<value>', with or without blanks around
\* '=', with a valid scalar literal returns the constant of that name and
\* type whose value is the one-element list holding the literal; a line
\* without '=' or with nothing after '=' is rejected.
C10_ConstantDef ==
    lop = "constant" =>
        /\ lin.kind = "scalar" /\ lin.sep # <<>> /\ ValidInt(lin.elem, lin.val) =>
               lres = ConstantOk(lin.name, DeclaredType(lin), <<lin.val>>)
        /\ lin.kind = "scalar" /\ lin.sep # <<>> /\ ValidString(lin.elem, lin.val) =>
               /\ lres.ok /\ Len(lres.value) = 1
               /\ lres.name = lin.name /\ lres.type = DeclaredType(lin)
        /\ lin.sep = <<>> \/ lin.val = <<>> => ~lres.ok

\* 'int32 AAA=30' is the constant AAA of type int32 with value ["30"]
C10_Witness ==
    /\ lop = "constant"
    /\ line = TokInt32 \o <<SP>> \o ConstantNameText \o <<"=", "3", "0">>
    /\ lres = ConstantOk(ConstantNameText, NestableTypeOf(BasicType("I32")),
                         <<(<<"3", "0">>)>>)

\* the value text v is, as a whole, a literal of the declared type of i with
\* legal arity
ValidValue(i, v) ==
    \/ i.kind = "scalar" /\ (ValidInt(i.elem, v) \/ ValidString(i.elem, v))
    \/ /\ i.kind # "scalar"
       /\ \E k \in 0..MaxElems : ListOf(i.elem, v, k) /\ Fits(i.kind, i.n, k)

\* the number of elements the value text v holds
ElementCount(i, v) ==
    IF i.kind = "scalar" THEN 1
    ELSE CHOOSE k \in 0..MaxElems : ListOf(i.elem, v, k)

\* C11: member_def and constant_def return a Member or Constant only when the
\* whole line validates: a value region that is present is, in full, a
\* literal of the declared type with legal arity, and the value returned holds
\* every element of it; an invalid value region never gives a member with the
\* default dropped or truncated.
C11_WholeLineValidates ==
    lop # "idle" /\ lres.ok =>
        /\ lin.val = <<>> => lin.form = "member" /\ lres.default = None
        /\ lin.val # <<>> =>
               /\ ValidValue(lin, lin.val)
               /\ lin.form = "member" => lres.default.some
               /\ Len(Parsed(lres, lin.form)) = ElementCount(lin, lin.val)

\* C12: every failure of member_def or constant_def is a structured error that
\* carries the offending text: the raw line for a grammar failure, the value
\* text for a value failure (wrong arity, bound exceeded and trailing
\* characters included), the type for a default on a non-primitive type.
C12_ErrorsCarryInput ==
    lop # "idle" /\ ~lres.ok =>
        \/ lres.err \in {"ParseMemberError", "ParseConstantError"} /\ lres.input = line
        \/ lres.err \in {"ParseDefaultValueError", "ParseConstantValueError"}
               /\ lres.input = lin.val
        \/ lres.err = "InvalidDefaultError" /\ lres.input = lin.elem

-----------------------------------------------------------------------------
(* Properties of the parsed aggregates.                                    *)

\* the member and the constant that the declaration lines of the model declare
DeclMember ==
    [name |-> <<"a">>, type |-> NestableTypeOf(BasicType("I32")), default |-> None]
ConstConstant ==
    [name |-> <<"X">>, type |-> NestableTypeOf(BasicType("I32")),
     value |-> <<(<<"1">>)>>]

\* the Message that the lines ls declare
Declared(pkg, name, ls) ==
    Message(pkg, name, [j \in 1..CountEq(ls, DeclLine) |-> DeclMember],
            [j \in 1..CountEq(ls, ConstLine) |-> ConstConstant])

\* every line of ls is a declaration or a comment
Parses(ls) == \A j \in DOMAIN ls : ls[j] \in {DeclLine, ConstLine, CommentLine}

\* the index of the n-th separator line of the lines ls
RECURSIVE SeparatorAt(_, _)
SeparatorAt(ls, n) ==
    IF n = 1 THEN Least({j \in DOMAIN ls : ls[j] = SepLine})
    ELSE Least({j \in DOMAIN ls : ls[j] = SepLine /\ j > SeparatorAt(ls, n - 1)})

\* the lines of ls between the separators at a and b
Between(ls, a, b) == SubSeq(ls, a + 1, b - 1)

\* no line of ls other than a separator line holds a dash
PlainLines(ls) == \A j \in DOMAIN ls : ls[j] \notin {CommentLine, DashLine}

\* the Service that the lines ls with their one separator at index at declare
ServiceOfLines(ls, at) ==
    ServiceOk(PkgName, SrvName,
              Declared(PkgName, SrvName \o <<"_", "R", "e", "q", "u", "e", "s", "t">>,
                       Between(ls, 0, at)),
              Declared(PkgName, SrvName \o <<"_", "R", "e", "s", "p", "o", "n", "s", "e">>,
                       Between(ls, at, Len(ls) + 1)))

ServiceAsDeclared(ls) ==
    /\ dres.ok => dres = ServiceOfLines(ls, SeparatorAt(ls, 1))
    /\ PlainLines(ls) /\ Parses(SelectSeq(ls, LAMBDA l : l # SepLine)) /\ AtLineEnd(norm)
           => dres.ok

\* C13: for a service text with one separator line parse_service_string
\* returns the Service of the given package and name whose request is the
\* Message declared before the separator, named '{service}_Request', and whose
\* response is the Message declared after it, named '{service}_Response', both
\* in the service's package.
C13_ServiceBlocks ==
    dop = "service" /\ SeparatorLines(norm) = 1 => ServiceAsDeclared(lines(norm))

\* a request with one member and a response with one constant
C13_Witness ==
    /\ dop = "service"
    /\ text = DeclLine \o <<NL>> \o SepLine \o <<NL>> \o ConstLine \o <<NL>>
    /\ dres.ok
    /\ dres.request.members = <<DeclMember>>
    /\ dres.response.constants = <<ConstConstant>>

\* the Action that the lines ls with their two separators at a and b declare
ActionOfLines(ls, a, b) ==
    ActionOk(PkgName, ActionName,
             Declared(PkgName, ActionName \o <<"_", "G", "o", "a", "l">>,
                      Between(ls, 0, a)),
             Declared(PkgName, ActionName \o <<"_", "R", "e", "s", "u", "l", "t">>,
                      Between(ls, a, b)),
             Declared(PkgName, ActionName \o <<"_", "F", "e", "e", "d", "b", "a", "c", "k">>,
                      Between(ls, b, Len(ls) + 1)))

ActionAsDeclared(ls) ==
    /\ dres.ok => dres = ActionOfLines(ls, SeparatorAt(ls, 1), SeparatorAt(ls, 2))
    /\ PlainLines(ls) /\ Parses(SelectSeq(ls, LAMBDA l : l # SepLine)) => dres.ok

\* C14: for an action text with two separator lines parse_action_string
\* assigns the three blocks in source order: the first is the goal named
\* '{action}_Goal', the second the result named '{action}_Result', the third
\* the feedback named '{action}_Feedback', each holding exactly the members
\* and constants declared in its own block.
C14_ActionBlocks ==
    dop = "action" /\ SeparatorLines(norm) = 2 => ActionAsDeclared(lines(norm))

\* a goal with one member, a result with one constant, an empty feedback
C14_Witness ==
    /\ dop = "action"
    /\ text = DeclLine \o <<NL>> \o SepLine \o <<NL>> \o ConstLine \o <<NL>> \o SepLine
    /\ dres.ok
    /\ dres.goal.members = <<DeclMember>>
    /\ dres.result.constants = <<ConstConstant>>
    /\ dres.feedback = Message(PkgName, ActionName \o ACTION_FEEDBACK_SUFFIX, <<>>, <<>>)

\* the number of separator lines a dialect asks for
Required(op) == IF op = "service" THEN 1 ELSE 2

\* the failing line of ls is its only line that is no valid declaration
OnlyBadLineFails(ls) ==
    /\ CountEq(ls, BadLine) > 0
    /\ PlainLines(ls)
    /\ Parses(SelectSeq(ls, LAMBDA l : l \notin {SepLine, BadLine}))

\* C15: service and action parsing expose no partial aggregate: a Service or
\* Action is returned only if every block parses; a failing line in any block
\* makes the whole result that line's failure, and the failure holds no
\* Message.
C15_NoPartialAggregate ==
    dop # "idle" =>
        /\ dres.ok =>
               \A j \in DOMAIN blocks : parse_message_string(PkgName, <<>>, blocks[j]).ok
        /\ CountEq(lines(norm), BadLine) > 0 => ~dres.ok
        /\ /\ OnlyBadLineFails(lines(norm))
           /\ SeparatorLines(norm) = Required(dop)
           /\ AtLineEnd(norm)
           => dres.err = "ParseMemberError" /\ dres.input = BadLine
        /\ ~dres.ok =>
               IF dop = "service" THEN dres = ServiceErr(dres.err, dres.input)
               ELSE dres = ActionErr(dres.err, dres.input)

\* a failing line in the third block of an action whose first block is valid
C15_Witness ==
    /\ dop = "action"
    /\ text = DeclLine \o <<NL>> \o SepLine \o <<NL>> \o SepLine \o <<NL>> \o BadLine
    /\ dres = ActionErr("ParseMemberError", BadLine)

-----------------------------------------------------------------------------
(* Properties of the derived artefacts.                                    *)

\* member m is called name, is a plain reference to the type written ref, and
\* has no default
RefersTo(m, name, ref) ==
    /\ m.name = name
    /\ m.type.m = "NestableType"
    /\ m.type.vt.k = "NamespacedType"
    /\ m.type.vt.name = ref
    /\ m.default = None

\* member m is called name, is of the primitive type tag, and has no default
IsBasic(m, name, tag) ==
    /\ m.name = name
    /\ m.type.m = "NestableType"
    /\ m.type.vt.k = "BasicType"
    /\ m.type.vt.t = tag
    /\ m.default = None

\* the member goal_id : unique_identifier_msgs/msg/UUID
IsGoalId(m) == RefersTo(m, <<"g", "o", "a", "l", "_", "i", "d">>, <<"u", "n", "i", "q", "u", "e", "_", "i", "d", "e", "n", "t", "i", "f", "i", "e", "r", "_", "m", "s", "g", "s", "/", "m", "s", "g", "/", "U", "U", "I", "D">>)

\* {package}/action/{action}{suffix}
OwnPart(a, suffix) == a.package \o <<"/", "a", "c", "t", "i", "o", "n", "/">> \o a.name \o suffix

\* C16: for every Action, send_goal_srv returns the Service {action}_SendGoal
\* of the action's package; its request {action}_SendGoal_Request has exactly
\* the members goal_id : unique_identifier_msgs/msg/UUID and
\* goal : {package}/action/{action}_Goal, in that order; its response
\* {action}_SendGoal_Response has exactly accepted : bool and
\* stamp : builtin_interfaces/msg/Time, in that order; no member has a
\* default and neither message has constants.
C16_SendGoalSrv ==
    aop = "send_goal_srv" =>
        /\ ares.package = action.package
        /\ ares.name = action.name \o <<"_", "S", "e", "n", "d", "G", "o", "a", "l">>
        /\ ares.request.name = action.name \o <<"_", "S", "e", "n", "d", "G", "o", "a", "l", "_", "R", "e", "q", "u", "e", "s", "t">>
        /\ Len(ares.request.members) = 2
        /\ IsGoalId(ares.request.members[1])
        /\ RefersTo(ares.request.members[2], <<"g", "o", "a", "l">>, OwnPart(action, <<"_", "G", "o", "a", "l">>))
        /\ ares.request.constants = <<>>
        /\ ares.response.name = action.name \o <<"_", "S", "e", "n", "d", "G", "o", "a", "l", "_", "R", "e", "s", "p", "o", "n", "s", "e">>
        /\ Len(ares.response.members) = 2
        /\ IsBasic(ares.response.members[1], <<"a", "c", "c", "e", "p", "t", "e", "d">>, "Bool")
        /\ RefersTo(ares.response.members[2], <<"s", "t", "a", "m", "p">>, <<"b", "u", "i", "l", "t", "i", "n", "_", "i", "n", "t", "e", "r", "f", "a", "c", "e", "s", "/", "m", "s", "g", "/", "T", "i", "m", "e">>)
        /\ ares.response.constants = <<>>

C16_Witness ==
    /\ aop = "send_goal_srv"
    /\ action.package = PkgName
    /\ action.name = ActionName
    /\ Len(action.goal.members) = 1
    /\ Len(ares.request.members) = 2

\* C17: for every Action, get_result_srv returns the Service
\* {action}_GetResult of the action's package; its request
\* {action}_GetResult_Request has exactly the one member
\* goal_id : unique_identifier_msgs/msg/UUID; its response
\* {action}_GetResult_Response has exactly status : int8 and
\* result : {package}/action/{action}_Result, in that order; there are no
\* defaults and no constants.
C17_GetResultSrv ==
    aop = "get_result_srv" =>
        /\ ares.package = action.package
        /\ ares.name = action.name \o <<"_", "G", "e", "t", "R", "e", "s", "u", "l", "t">>
        /\ ares.request.name = action.name \o <<"_", "G", "e", "t", "R", "e", "s", "u", "l", "t", "_", "R", "e", "q", "u", "e", "s", "t">>
        /\ Len(ares.request.members) = 1
        /\ IsGoalId(ares.request.members[1])
        /\ ares.request.constants = <<>>
        /\ ares.response.name = action.name \o <<"_", "G", "e", "t", "R", "e", "s", "u", "l", "t", "_", "R", "e", "s", "p", "o", "n", "s", "e">>
        /\ Len(ares.response.members) = 2
        /\ IsBasic(ares.response.members[1], <<"s", "t", "a", "t", "u", "s">>, "I8")
        /\ RefersTo(ares.response.members[2], <<"r", "e", "s", "u", "l", "t">>, OwnPart(action, <<"_", "R", "e", "s", "u", "l", "t">>))
        /\ ares.response.constants = <<>>

C17_Witness ==
    /\ aop = "get_result_srv"
    /\ action.package = <<"p">>
    /\ action.name = ActionName
    /\ Len(action.result.members) = 1
    /\ Len(ares.response.members) = 2

\* the Message that feedback_message_msg is to return for the Action a
IsFeedbackMessage(m, a) ==
    /\ m.package = a.package
    /\ m.name = a.name \o <<"_", "F", "e", "e", "d", "b", "a", "c", "k", "M", "e", "s", "s", "a", "g", "e">>
    /\ Len(m.members) = 2
    /\ IsGoalId(m.members[1])
    /\ RefersTo(m.members[2], <<"f", "e", "e", "d", "b", "a", "c", "k">>, OwnPart(a, <<"_", "F", "e", "e", "d", "b", "a", "c", "k">>))
    /\ m.constants = <<>>

\* C18: for every Action, feedback_message_msg returns the Message
\* {action}_FeedbackMessage of the action's package with exactly the members
\* goal_id : unique_identifier_msgs/msg/UUID and
\* feedback : {package}/action/{action}_Feedback, in that order, without
\* defaults or constants; the call always returns a Message and leaves the
\* Action as it was.
C18_FeedbackMessageMsg ==
    [][aop' = "feedback_message_msg" =>
          /\ IsFeedbackMessage(ares', action)
          /\ action' = action]_vars

C18_Witness ==
    /\ aop = "feedback_message_msg"
    /\ action.package = PkgName
    /\ action.name = <<"A">>
    /\ action.feedback.name # action.name \o ACTION_FEEDBACK_SUFFIX
    /\ Len(ares.members) = 2

-----------------------------------------------------------------------------
(* Properties of the package run.                                          *)

\* the roots a build loads: those of the environment, then the configured ones
Roots == (IF config.search_env THEN environ.paths ELSE <<>>) \o config.ament_prefix_paths

\* the index files of the roots that are not excluded, each as <<root, file>>
Occurrences ==
    {o \in (DOMAIN Roots) \X {1, 2} :
        /\ o[2] \in DOMAIN fs[Roots[o[1]]]
        /\ fs[Roots[o[1]]][o[2]].pkg_name \notin config.exclude_packages}
IndexAt(o) == fs[Roots[o[1]]][o[2]]
LoadedNames == {IndexAt(o).pkg_name : o \in Occurrences}

\* every prefix of the build loads: the environment is there when it is
\* searched and no package that is not excluded has a malformed file or a
\* file without a file stem
Loadable ==
    /\ config.search_env => environ.set
    /\ \A o \in Occurrences : \A i \in DOMAIN IndexAt(o).lns :
           IndexAt(o).lns[i] \notin {<<"m", "s", "g", "/", "B", "a", "d", ".", "i", "d", "l">>, NoStemAction, NoStemSrv}

\* the names that two packages of the build share
SharedNames ==
    {IndexAt(o).pkg_name : o \in {x \in Occurrences :
        \E y \in Occurrences : y # x /\ IndexAt(y).pkg_name = IndexAt(x).pkg_name}}

\* the names of ns are strictly ascending
Ascending(ns) == \A i \in 1..(Len(ns) - 1) : str_less(ns[i], ns[i + 1])

\* C19: build and run fail with the "multiple ... packages found" error
\* whenever two packages that are not excluded, loaded from one prefix listed
\* twice or from different prefixes, share a name; when they succeed,
\* package_names lists every loaded package name exactly once, ascending.
C19_DuplicatePackages ==
    pop \in {"build", "run"} =>
        /\ Loadable /\ SharedNames # {} =>
               /\ ~pres.ok
               /\ pres.err = "MultiplePackagesFound"
               /\ pres.input \in SharedNames
        /\ pres.ok =>
               /\ Ascending(pres.package_names)
               /\ {pres.package_names[i] : i \in DOMAIN pres.package_names} = LoadedNames

\* a build of two prefixes that share a package fails on the shared name,
\* and so does run on the same configuration, with a cc::Build or without
C19_Witness ==
    /\ pop = "build"
    /\ ~config.search_env
    /\ config.ament_prefix_paths = <<2, 1>>
    /\ config.exclude_packages = DEFAULT_EXCLUDED_PACKAGES
    /\ Loadable
    /\ SharedNames = {PkgName}
    /\ Cardinality(LoadedNames) = 2
    /\ pres.err = "MultiplePackagesFound"
    /\ \A cc \in BOOLEAN :
           /\ run(compile_ffi(config, cc), environ, fs).err = "MultiplePackagesFound"
           /\ run(compile_ffi(config, cc), environ, fs).input = PkgName

\* the names of the definitions xs do not descend
OrderedByName(xs) == \A i \in 1..(Len(xs) - 1) : ~str_less(xs[i + 1].name, xs[i].name)

\* C20: in every Package built by AmentPrefix::load the messages, the
\* services and the actions are each ordered by name, whatever the order of
\* their lines in the resource-index file of the package.
C20_PackagesOrdered ==
    pop = "load" /\ pres.ok =>
        \A i \in DOMAIN pres.packages :
            /\ OrderedByName(pres.packages[i].msgs)
            /\ OrderedByName(pres.packages[i].srvs)
            /\ OrderedByName(pres.packages[i].actions)

-----------------------------------------------------------------------------
(* Properties of the call run.                                             *)

\* an identifier of letters and digits
IsAlnum(s) == \A i \in DOMAIN s : s[i] \in Lower \cup Upper \cup DigitSet

\* the places of the identifier s after which an underscore is due
CutAfter(s, i) ==
    \/ s[i] \in Lower /\ s[i + 1] \in Upper
    \/ s[i] \in DigitSet /\ s[i + 1] \in Upper
    \/ i + 2 <= Len(s) /\ s[i] \in Upper /\ s[i + 1] \in Upper /\ s[i + 2] \in Lower
Cuts(s) == {i \in 1..(Len(s) - 1) : CutAfter(s, i)}

\* where the character i of the identifier s lands in its snake form
Landing(s, i) == i + Cardinality({j \in Cuts(s) : j < i})

\* the lower-case letter of the upper-case letter c
LowerOf(c) ==
    CASE c = "A" -> "a" [] c = "B" -> "b" [] c = "T" -> "t" [] c = "H" -> "h"
      [] OTHER -> c

\* out is the snake form of the identifier s: its characters in lower case,
\* in order, with one underscore after every cut and nothing else
IsSnakeOf(out, s) ==
    /\ Len(out) = Len(s) + Cardinality(Cuts(s))
    /\ \A i \in DOMAIN s : out[Landing(s, i)] = LowerOf(s[i])
    /\ \A k \in DOMAIN out :
           (\A i \in DOMAIN s : Landing(s, i) # k) => out[k] = "_"

\* C21: camel2snake gives a PascalCase identifier in lower case with an
\* underscore exactly at each lower-to-upper, digit-to-upper and acronym
\* boundary and nowhere else; every call on the same identifier gives the
\* same result; TestHoge gives test_hoge.
C21_Camel2Snake ==
    fop = "camel2snake" /\ IsAlnum(arg) =>
        /\ fres.ok
        /\ IsSnakeOf(fres.out, arg)
        /\ arg = TestHoge => fres.out = <<"t", "e", "s", "t", "_", "h", "o", "g", "e">>

C21_Witness ==
    /\ fop = "camel2snake"
    /\ fn = 2
    /\ arg = <<"a", "A", "B", "b">>
    /\ fres.out = <<"a", "_", "a", "_", "b", "b">>

\* the line s ends in .idl
EndsInIdl(s) == Len(s) >= 4 /\ SubSeq(s, Len(s) - 3, Len(s)) = <<".", "i", "d", "l">>

\* the place of the first '/' of s, 0 when it has none
FirstSlash(s) ==
    IF \E i \in DOMAIN s : s[i] = "/"
    THEN CHOOSE i \in DOMAIN s : s[i] = "/" /\ \A j \in 1..(i - 1) : s[j] # "/"
    ELSE 0

\* the directory part of a line with a '/', and the name between it and .idl
DirPart(s) == SubSeq(s, 1, FirstSlash(s) - 1)
NamePart(s) == SubSeq(s, FirstSlash(s) + 1, Len(s) - 4)

Namespaces == {<<"m", "s", "g">>, <<"s", "r", "v">>, <<"a", "c", "t", "i", "o", "n">>}

\* C22: parse_line skips every line that does not end in .idl, whatever its
\* directory part; for a line <ns>/<Name>.idl with ns one of msg, srv and
\* action it yields that namespace and the file name <Name>.<ns>; a line
\* that ends in .idl and has another directory part or no '/' is an error.
C22_ParseLine ==
    fop = "parse_line" =>
        /\ ~EndsInIdl(arg) => fres.ok /\ ~fres.some
        /\ EndsInIdl(arg) /\ FirstSlash(arg) > 0 /\ DirPart(arg) \in Namespaces
               /\ NamePart(arg) \notin {<<>>, <<".">>} =>
               /\ fres.ok /\ fres.some
               /\ fres.ns = DirPart(arg)
               /\ fres.file_name = NamePart(arg) \o <<".">> \o DirPart(arg)
        /\ EndsInIdl(arg) /\ (FirstSlash(arg) = 0 \/ DirPart(arg) \notin Namespaces) =>
               ~fres.ok /\ fres.input = arg

C22_Witness ==
    /\ fop = "parse_line"
    /\ arg = <<"a", "c", "t", "i", "o", "n", "/", "T", "e", "s", "t", "H", "o", "g", "e", ".", "i", "d", "l">>
    /\ fres.some
    /\ fres.ns = <<"a", "c", "t", "i", "o", "n">>
    /\ fres.file_name = <<"T", "e", "s", "t", "H", "o", "g", "e", ".", "a", "c", "t", "i", "o", "n">>

-----------------------------------------------------------------------------
(* The derived artefacts of a parsed Action.                               *)

\* the reference {package}/action/{name of message m} of the Action a
RefTo(a, m) == a.package \o <<"/", "a", "c", "t", "i", "o", "n", "/">> \o m.name

\* the type the member of that name of message m refers to
MemberRef(m, name) ==
    (CHOOSE x \in {m.members[i] : i \in DOMAIN m.members} : x.name = name).type.vt

\* C23: for every Action produced by parse_action_string, the goal field of
\* send_goal_srv, the result field of get_result_srv and the feedback field
\* of feedback_message_msg are NamespacedTypes of the action's package and
\* the namespace action that name action.goal, action.result and
\* action.feedback.
C23_DerivedRefsNameOwnParts ==
    action \in ParsedActions =>
        /\ aop = "send_goal_srv" =>
               /\ MemberRef(ares.request, <<"g", "o", "a", "l">>).k = "NamespacedType"
               /\ MemberRef(ares.request, <<"g", "o", "a", "l">>).name = RefTo(action, action.goal)
        /\ aop = "get_result_srv" =>
               /\ MemberRef(ares.response, <<"r", "e", "s", "u", "l", "t">>).k = "NamespacedType"
               /\ MemberRef(ares.response, <<"r", "e", "s", "u", "l", "t">>).name = RefTo(action, action.result)
        /\ aop = "feedback_message_msg" =>
               /\ MemberRef(ares, <<"f", "e", "e", "d", "b", "a", "c", "k">>).k = "NamespacedType"
               /\ MemberRef(ares, <<"f", "e", "e", "d", "b", "a", "c", "k">>).name = RefTo(action, action.feedback)

C23_Witness ==
    /\ action \in ParsedActions
    /\ aop = "get_result_srv"
    /\ action.name = ActionName
    /\ action.result.name = <<"F", "i", "b", "o", "n", "a", "c", "c", "i", "_", "R", "e", "s", "u", "l", "t">>
    /\ Len(action.result.members) = 1
    /\ MemberRef(ares.response, <<"r", "e", "s", "u", "l", "t">>).name = <<"t", "e", "s", "t", "_", "m", "s", "g", "s", "/", "a", "c", "t", "i", "o", "n", "/", "F", "i", "b", "o", "n", "a", "c", "c", "i", "_", "R", "e", "s", "u", "l", "t">>

-----------------------------------------------------------------------------
(* Properties of load_package_dir.                                         *)

\* the names of the files of subdirectory d that end in .ns, in order
Definitions(d, ns) ==
    SelectSeq(d.files, LAMBDA f : Len(f) > Len(ns) + 1
                                  /\ SubSeq(f, Len(f) - Len(ns), Len(f)) = <<".">> \o ns)

\* the definitions found under the package directory
FoundIn(pd) ==
    Definitions(pd.msg, <<"m", "s", "g">>) \o Definitions(pd.srv, <<"s", "r", "v">>) \o Definitions(pd.action, <<"a", "c", "t", "i", "o", "n">>)

\* no definition of the package directory is malformed
WellFormed(pd) == \A i \in DOMAIN FoundIn(pd) : SubSeq(FoundIn(pd)[i], 1, 3) # <<"B", "a", "d">>

\* C24: load_package_dir returns the loaded Package when at least one
\* message, service or action definition was found under msg, srv or action,
\* and fails with "None of msg, srv, action directory found" exactly when
\* none was found.
C24_LoadPackageDir ==
    pop = "load_package_dir" /\ WellFormed(fs) =>
        /\ FoundIn(fs) # <<>> =>
               /\ pres.ok
               /\ Len(pres.package.msgs) = Len(Definitions(fs.msg, <<"m", "s", "g">>))
               /\ Len(pres.package.srvs) = Len(Definitions(fs.srv, <<"s", "r", "v">>))
               /\ Len(pres.package.actions) = Len(Definitions(fs.action, <<"a", "c", "t", "i", "o", "n">>))
        /\ FoundIn(fs) = <<>> => ~pres.ok /\ pres.err = "NoneOfMsgSrvActionFound"

-----------------------------------------------------------------------------
(* Properties of the exclude set.                                          *)

\* every line of every index file of the roots is one parse_line accepts
IndexAccepted ==
    \A r \in DOMAIN Roots : \A j \in DOMAIN fs[Roots[r]] :
        \A i \in DOMAIN fs[Roots[r]][j].lns : fs[Roots[r]][j].lns[i] # <<"f", "o", "o", "/", "A", ".", "i", "d", "l">>

\* no package of the built Compiler is an excluded one, and a build whose
\* index files are accepted fails only on packages that are not excluded
ExcludedStayOut ==
    pop = "build" =>
        /\ pres.ok =>
               /\ \A i \in DOMAIN pres.package_names :
                      pres.package_names[i] \notin config.exclude_packages
               /\ \A a \in DOMAIN pres.aments : \A k \in DOMAIN pres.aments[a].packages :
                      pres.aments[a].packages[k].name \notin config.exclude_packages
        /\ Loadable /\ IndexAccepted /\ SharedNames = {} => pres.ok

\* what the builder methods do to the exclude set
ExcludeSetSteps ==
    /\ pop' = "new" => config'.exclude_packages = {<<"l", "i", "b", "s", "t", "a", "t", "i", "s", "t", "i", "c", "s", "_", "c", "o", "l", "l", "e", "c", "t", "o", "r">>}
    /\ pop' = "exclude_package" =>
           config'.exclude_packages = config.exclude_packages \cup {parg'}
    /\ pop' = "exclude_packages" =>
           config'.exclude_packages = config.exclude_packages \cup parg'
    /\ pop' = "clear_exclude_packages" => config'.exclude_packages = {}
    /\ pop' \in {"search_env", "ament_prefix_path", "ament_prefix_paths", "build"} =>
           config'.exclude_packages = config.exclude_packages

\* C25: a package whose name is in the exclude set never appears in
\* AmentPrefix.packages or in package_names and none of its definition files
\* is parsed, so a malformed definition file or a duplicate name in an
\* excluded package cannot fail the build; the exclude set holds
\* libstatistics_collector by default, grows with exclude_package and
\* exclude_packages and is emptied by clear_exclude_packages.
C25_ExcludeSet == [](ExcludedStayOut) /\ [][ExcludeSetSteps]_vars

C25_Witness ==
    /\ pop = "build"
    /\ pres.ok
    /\ config.exclude_packages = {<<"l", "i", "b", "s", "t", "a", "t", "i", "s", "t", "i", "c", "s", "_", "c", "o", "l", "l", "e", "c", "t", "o", "r">>, <<"p">>}
    /\ ~config.search_env
    /\ config.ament_prefix_paths = <<1, 2>>
    /\ fs = <<(<<BadFile(<<"p">>), GoodFile(PkgName)>>), (<<GoodFile(<<"p">>)>>)>>
    /\ pres.package_names = <<PkgName>>

-----------------------------------------------------------------------------
(* Properties of the invoker run.                                          *)

\* the invoke just made neither called take_response nor sent anything
NothingTakenOrSent ==
    /\ ires'.take = "none" /\ ires'.send = "none"
    /\ handle' = handle /\ channel' = channel /\ taken' = taken

\* C26: after an invoke whose try_send reports a disconnected receiver the
\* sender is dropped (tx = None) and that invoke returns Ok; every later
\* invoke returns Ok without taking a response from the client handle and
\* without sending anything; tx never becomes Some again.
C26_StopsForGood ==
    [][/\ iop' = "invoke" /\ ires'.send = "disconnected" =>
              tx' = None /\ ires'.ret = InvokeOk
       /\ iop' = "invoke" /\ tx = None =>
              ires'.ret = InvokeOk /\ NothingTakenOrSent
       /\ tx = None => tx' = None]_vars

C26_Witness ==
    /\ iop = "invoke"
    /\ tx = None
    /\ ires.take = "none" /\ ires.send = "none" /\ ires.ret = InvokeOk
    /\ handle # <<>>
    /\ taken # <<>> /\ taken[Len(taken)].send = "disconnected"

\* the messages of the responses invoke sent, in the order they were taken
RECURSIVE SentOf(_)
SentOf(tk) ==
    IF tk = <<>> THEN <<>>
    ELSE (IF Head(tk).send = "ok" THEN <<WorkerMessage(Head(tk).v)>> ELSE <<>>)
         \o SentOf(Tail(tk))

\* the responses are taken in the order the service sent them, each once,
\* and those sent are in the channel or with the receiver, in that order
DeliveredInOrder ==
    /\ \A i \in DOMAIN taken : taken[i].v = i
    /\ rx => received \o channel = SentOf(taken)
    /\ Len(channel) <= MaxQueue

\* a full channel is reported and leaves the invoker active
FullIsReported ==
    iop = "invoke" /\ ires.send = "full" =>
        ires.ret = InvokeErr("MessageQueueIsFull") /\ tx.some

\* C27 as claimed: every response that invoke takes is delivered to the
\* channel as exactly one WorkerMessage::Message, in the order taken, or
\* reported to the caller as an error (MessageQueueIsFull, tx stays Some);
\* no taken response is dropped while invoke returns Ok.
C27_TakenIsSentOrReported ==
    /\ DeliveredInOrder
    /\ FullIsReported
    /\ iop = "invoke" /\ ires.took.some /\ ires.ret.ok => ires.send = "ok"

\* C27 as amended: ... or, when the receiver is disconnected, dropped by
\* the invoke that stops the invoker, which returns Ok.
C27_TakenIsSentReportedOrStopped ==
    /\ DeliveredInOrder
    /\ FullIsReported
    /\ iop = "invoke" /\ ires.took.some /\ ires.ret.ok =>
           \/ ires.send = "ok"
           \/ ires.send = "disconnected" /\ ~rx /\ tx = None
    /\ \A i \in DOMAIN taken :
           /\ taken[i].send \in {"ok", "full", "disconnected"}
           /\ taken[i].send = "disconnected" => i = Len(taken)

C27_Witness ==
    /\ iop = "invoke"
    /\ Len(taken) = 4
    /\ taken[1].send = "ok" /\ taken[2].send = "ok"
    /\ taken[3].send = "full" /\ taken[4].send = "disconnected"
    /\ received = <<WorkerMessage(1)>>
    /\ ires.ret = InvokeOk

\* C28: when take_response fails inside invoke nothing is sent on the
\* channel and the invoker's state is unchanged; RclClientTakeFailed is
\* swallowed (invoke returns Ok) and every other failure is returned to the
\* caller unchanged.
C28_TakeFailure ==
    [][iop' = "invoke" /\ ires'.take \in TakeErrors =>
           /\ channel' = channel /\ tx' = tx /\ handle' = handle
           /\ taken' = taken /\ received' = received /\ rx' = rx
           /\ ires'.send = "none" /\ ~ires'.took.some
           /\ ires'.take = "RclClientTakeFailed" => ires'.ret = InvokeOk
           /\ ires'.take # "RclClientTakeFailed" => ires'.ret = InvokeErr(ires'.take)]_vars

C28_Witness ==
    /\ iop = "invoke"
    /\ ires = Invoked("RclBadAlloc", None, "none", InvokeErr("RclBadAlloc"))
    /\ tx.some
    /\ handle # <<>>
    /\ channel # <<>>

-----------------------------------------------------------------------------
(* Properties of the tree run.                                             *)

\* the index in the log of the most recent set on a path, 0 when never set
RECURSIVE LastSet(_, _, _)
LastSet(log, path, i) ==
    IF i = 0 THEN 0
    ELSE IF log[i].path = path THEN i ELSE LastSet(log, path, i - 1)

\* what the most recent set on a path contributes
Contribution(log, path) ==
    IF LastSet(log, path, Len(log)) = 0 THEN <<>>
    ELSE <<log[LastSet(log, path, Len(log))].context>>

\* the four paths a lookup is on, from most general to most specific
PathsOf(pkg, kind, msg) ==
    <<Wild, MsgPath("PkgWild", pkg, <<>>), MsgPath(KindWild(kind), pkg, <<>>),
      MsgPath(KindMsg(kind), pkg, msg)>>

Expected(log, ps) ==
    Contribution(log, ps[1]) \o Contribution(log, ps[2])
    \o Contribution(log, ps[3]) \o Contribution(log, ps[4])

\* every lookup gives what the log of set calls says, the last get included
LookupsFollowLog ==
    top # "idle" =>
        /\ \A p \in TreePkgs, k \in MsgKinds, m \in TreeMsgs :
               /\ get_contexts(tree, p, k, m) = Expected(tlog, PathsOf(p, k, m))
               /\ Len(get_contexts(tree, p, k, m)) <= 4
        /\ top = "get" => tres = Expected(tlog, PathsOf(targ[1], targ[2], targ[3]))

\* the path of the set call just made is one of the four
OnPath(path, ps) == \E i \in 1..4 : ps[i] = path

\* a set off the paths of a lookup leaves it as it was, and so does a get
LookupsFramed ==
    /\ top' = "get" => tree' = tree
    /\ top' = "set" =>
           \A p \in TreePkgs, k \in MsgKinds, m \in TreeMsgs :
               ~OnPath(tlog'[Len(tlog')].path, PathsOf(p, k, m)) =>
                   get_contexts(tree', p, k, m) = get_contexts(tree, p, k, m)

\* C29: after any sequence of set calls, get(pkg, kind, msg) returns at most
\* four contexts, ordered from most general to most specific (global
\* wildcard, wildcard of pkg, wildcard of kind within pkg, exact entry); each
\* is the one given by the most recent set on that path, a path never set
\* contributes nothing, a set on a path of another package, kind or message
\* name never changes the result, and get leaves the tree unchanged.
C29_TreeLookup == [](LookupsFollowLog) /\ [][LookupsFramed]_vars

C29_Witness ==
    /\ top = "get"
    /\ targ = <<(<<"a">>), "Srv", (<<"M">>)>>
    /\ Len(tlog) = 3
    /\ tlog[1].path = MsgPath("PkgSrvMsg", <<"a">>, <<"M">>)
    /\ tlog[2].path = Wild
    /\ tlog[3].path = MsgPath("PkgSrvMsg", <<"a">>, <<"M">>)
    /\ tres = <<2, 3>>

-----------------------------------------------------------------------------
(* Properties of MsgPath::from_str.                                        *)

\* a non-empty name of letters, digits and underscores
IsName(tok) ==
    /\ tok # <<>>
    /\ \A i \in DOMAIN tok : tok[i] \in Lower \cup Upper \cup DigitSet \cup {"_"}

IsKind(tok) == tok \in {<<"m", "s", "g">>, <<"s", "r", "v">>, <<"a", "c", "t", "i", "o", "n">>}

\* '*/*/*', 'pkg/*/*', 'pkg/<msg|srv|action>/*' or 'pkg/<msg|srv|action>/Name'
Accepted3(p, k, m) ==
    \/ p = <<"*">> /\ k = <<"*">> /\ m = <<"*">>
    \/ IsName(p) /\ k = <<"*">> /\ m = <<"*">>
    \/ IsName(p) /\ IsKind(k) /\ (m = <<"*">> \/ IsName(m))

AcceptedText(t) ==
    \E p \in PkgToks, k \in KindToks, m \in MsgToks :
        t = p \o <<"/">> \o k \o <<"/">> \o m /\ Accepted3(p, k, m)

\* C30: from_str accepts exactly the texts of three '/'-separated tokens
\* pkg/kind/msg in which a wildcard may only be followed by wildcards and
\* rejects every other text; every accepted path has a non-empty package
\* name and, when it names a message, a non-empty message name; a package
\* name with an underscore such as std_msgs is accepted as the package token.
C30_FromStr ==
    fop = "from_str" =>
        /\ fres.ok <=> AcceptedText(arg)
        /\ fres.ok /\ fres.path.tag # "Wild" => fres.path.pkg # <<>>
        /\ fres.ok /\ fres.path.tag \in {"PkgMsgMsg", "PkgSrvMsg", "PkgActionMsg"} =>
               fres.path.name # <<>>
        /\ arg = <<"s", "t", "d", "_", "m", "s", "g", "s", "/", "m", "s", "g", "/", "S", "t", "r", "i", "n", "g">> => fres.ok

====
